---- MODULE Spec2Model ----
(***************************************************************************)
(* A model of the canvas_sdk client library: CanvasClient (construction,   *)
(* _request and its get/post/put/delete wrappers, paginate), the GraphQL   *)
(* client, the resource facades (id coercion, get, list, the create        *)
(* operations, Files.upload) and                                           *)
(* the tools of mcp_server (date validation, single-object tools and the   *)
(* list-returning tools).                                                  *)
(*                                                                         *)
(* Python values are tagged records ([t |-> "none"], [t |-> "str", ...]);  *)
(* a Python string is the sequence of its characters, so that endswith,    *)
(* strip, split and substring tests are computed and not assumed.          *)
(***************************************************************************)
EXTENDS Integers, Sequences, FiniteSets, TLC

VARIABLES
    env,        \* os.environ: CANVAS_TOKEN and CANVAS_HOST
    client,     \* the CanvasClient object (NoClient before construction)
    call,       \* the call made last: its operation and arguments
    outcome,    \* how that call ended: a returned value or a raised exception
    sent,       \* the network requests the current call has issued, in order
    received,   \* the network's answers to them, in order
    server,     \* the pages the server holds for the collection being paginated
    pgPc,       \* position of the paginate generator
    pgEndpoint, \* paginate's local `endpoint`
    pgKwargs,   \* paginate's local `kwargs`
    pgResponse, \* paginate's local `response`
    pgIdx,      \* position of `for item in response`
    yielded,    \* the items the generator has yielded so far
    want,       \* TRUE while the consumer waits in next() for an item
    tool,       \* the MCP tool being run: its arguments, position and locals
    passed      \* the dict the caller passed as params or json_data, as it is now

vars == <<env, client, call, outcome, sent, received, server,
          pgPc, pgEndpoint, pgKwargs, pgResponse, pgIdx, yielded, want, tool,
          passed>>

pgVars == <<server, pgPc, pgEndpoint, pgKwargs, pgResponse, pgIdx, yielded, want>>

(***************************************************************************)
(* Bounds of the model.                                                    *)
(***************************************************************************)
MaxPages == 3       \* pages the server holds for one collection
MaxItems == 2       \* items on one page

(***************************************************************************)
(* Python values.                                                          *)
(***************************************************************************)
None == [t |-> "none"]
PyStr(s) == [t |-> "str", s |-> s]
PyInt(n) == [t |-> "int", n |-> n]
PyDict(d) == [t |-> "dict", d |-> d]
PyList(items) == [t |-> "list", items |-> items]
EmptyDict == PyDict(<<>>)

\* bool(v): the truth value Python gives v
Truthy(v) ==
    CASE v.t = "none" -> FALSE
      [] v.t = "str"  -> v.s # <<>>
      [] v.t = "int"  -> v.n # 0
      [] v.t = "dict" -> DOMAIN v.d # {}
      [] v.t = "list" -> v.items # <<>>

\* a or b
PyOr(a, b) == IF Truthy(a) THEN a ELSE b

Digit(d) ==
    CASE d = 0 -> "0" [] d = 1 -> "1" [] d = 2 -> "2" [] d = 3 -> "3"
      [] d = 4 -> "4" [] d = 5 -> "5" [] d = 6 -> "6" [] d = 7 -> "7"
      [] d = 8 -> "8" [] d = 9 -> "9"

\* str(n) for an int n >= 0: its decimal digits
RECURSIVE IntChars(_)
IntChars(n) == IF n < 10 THEN <<Digit(n)>> ELSE IntChars(n \div 10) \o <<Digit(n % 10)>>

\* the characters of the dictionary keys the model uses
KeyChars(k) ==
    CASE k = "id"      -> <<"i", "d">>
      [] k = "errors"  -> <<"e", "r", "r", "o", "r", "s">>
      [] k = "data"    -> <<"d", "a", "t", "a">>
      [] k = "message" -> <<"m", "e", "s", "s", "a", "g", "e">>
      [] k = "name"    -> <<"n", "a", "m", "e">>
      [] k = "x"       -> <<"x">>
      [] k = "key"     -> <<"k", "e", "y">>
      [] k = "due_at"  -> <<"d", "u", "e", "_", "a", "t">>
      [] k = "error"   -> <<"e", "r", "r", "o", "r">>
      [] k = "assignments" -> <<"a", "s", "s", "i", "g", "n", "m", "e", "n", "t", "s">>
      [] k = "course_name" -> <<"c", "o", "u", "r", "s", "e", "_", "n", "a", "m", "e">>
      [] k = "upload_url"    -> <<"u", "p", "l", "o", "a", "d", "_", "u", "r", "l">>
      [] k = "upload_params" ->
            <<"u", "p", "l", "o", "a", "d", "_", "p", "a", "r", "a", "m", "s">>

\* the keys of a dict in a fixed order (insertion order is not modelled: the
\* model's dicts hold at most two keys and are written in this order)
RECURSIVE KeySeq(_)
KeySeq(ks) ==
    IF ks = {} THEN <<>>
    ELSE LET k == CHOOSE x \in ks : \A y \in ks : Len(KeyChars(x)) <= Len(KeyChars(y))
         IN  <<k>> \o KeySeq(ks \ {k})

RECURSIVE JoinChars(_, _)
JoinChars(parts, sep) ==
    IF parts = <<>> THEN <<>>
    ELSE IF Len(parts) = 1 THEN parts[1]
    ELSE parts[1] \o sep \o JoinChars(Tail(parts), sep)

\* repr(v) and str(v): they differ on strings only (repr adds the quotes)
RECURSIVE Render(_, _)
Render(v, quote) ==
    CASE v.t = "none" -> <<"N", "o", "n", "e">>
      [] v.t = "int"  -> IntChars(v.n)
      [] v.t = "str"  -> IF quote THEN <<"'">> \o v.s \o <<"'">> ELSE v.s
      [] v.t = "list" ->
            <<"[">> \o JoinChars([i \in 1..Len(v.items) |-> Render(v.items[i], TRUE)],
                                 <<",", " ">>) \o <<"]">>
      [] v.t = "dict" ->
            LET ks == KeySeq(DOMAIN v.d)
            IN  <<"{">> \o JoinChars([i \in 1..Len(ks) |->
                                        <<"'">> \o KeyChars(ks[i]) \o <<"'", ":", " ">>
                                                \o Render(v.d[ks[i]], TRUE)],
                                     <<",", " ">>) \o <<"}">>

Str(v) == Render(v, FALSE)

\* s.endswith(suffix) for a one-character suffix
EndsWith(s, ch) == s # <<>> /\ s[Len(s)] = ch

(***************************************************************************)
(* Exceptions.                                                             *)
(***************************************************************************)
Exc(type) == [type |-> type, status_code |-> 0, message |-> None]
\* CanvasAPIError.__init__
CanvasAPIError(status_code, message) ==
    [type |-> "CanvasAPIError", status_code |-> status_code, message |-> message]

Returned(v) == [kind |-> "return", value |-> v]
Raised(e) == [kind |-> "raise", exc |-> e]
NoOutcome == [kind |-> "none"]

(***************************************************************************)
(* HTTP responses as the requests library presents them.                   *)
(***************************************************************************)
NotJson == [t |-> "notjson"]

\* the JSON text of a value, as the server writes it
RECURSIVE Dumps(_)
Dumps(v) ==
    CASE v.t = "none" -> <<"n", "u", "l", "l">>
      [] v.t = "int"  -> IntChars(v.n)
      [] v.t = "str"  -> <<"\"">> \o v.s \o <<"\"">>
      [] v.t = "list" ->
            <<"[">> \o JoinChars([i \in 1..Len(v.items) |-> Dumps(v.items[i])], <<",">>)
                    \o <<"]">>
      [] v.t = "dict" ->
            LET ks == KeySeq(DOMAIN v.d)
            IN  <<"{">> \o JoinChars([i \in 1..Len(ks) |->
                                        <<"\"">> \o KeyChars(ks[i]) \o <<"\"", ":">>
                                                 \o Dumps(v.d[ks[i]])],
                                     <<",">>) \o <<"}">>

\* a response body: its bytes (one character each), whether they are valid
\* UTF-8, and the value they decode to as JSON (NotJson when they do not)
JsonBody(v) == [raw |-> Dumps(v), utf8 |-> TRUE, json |-> v]
TextBody(s) == [raw |-> s, utf8 |-> TRUE, json |-> NotJson]
BytesBody(s) == [raw |-> s, utf8 |-> FALSE, json |-> NotJson]

S_errors == KeyChars("errors")
S_bad == <<"b", "a", "d">>

V_errorsStr == PyDict([errors |-> PyStr(S_bad)])
V_errorsList == PyDict([errors |-> PyList(<<PyDict([message |-> PyStr(S_bad)])>>)])
V_noErrors == PyDict([message |-> PyStr(S_bad)])
V_data == PyDict([data |-> PyDict([x |-> PyInt(1)])])
V_dataEmptyErrors == PyDict([data |-> PyDict([x |-> PyInt(1)]), errors |-> PyList(<<>>)])
V_dataErrors == PyDict([data |-> None, errors |-> PyList(<<PyDict([message |-> PyStr(S_bad)])>>)])

JsonValues ==
    {V_errorsStr, V_errorsList, V_noErrors, V_data, V_dataEmptyErrors, V_dataErrors,
     EmptyDict,
     PyList(<<>>), PyList(<<PyStr(S_errors)>>),
     PyStr(S_bad), PyStr(<<"n", "o", " ">> \o S_errors),
     PyInt(5), None}

B_empty == TextBody(<<>>)
B_blank == TextBody(<<" ", "\n">>)
B_html == TextBody(<<"<", "h", "1", ">">>)
B_latin1 == BytesBody(<<"\\xe9">>)

Bodies == {JsonBody(v) : v \in JsonValues} \cup {B_empty, B_blank, B_html, B_latin1}

Statuses == {200, 201, 304, 404, 500}

\* what the network gives back for one request: a response, or no response at
\* all (the transport raises ConnectionError)
NetFailure == [delivered |-> FALSE]
Response(status, body, next) ==
    [delivered |-> TRUE, status_code |-> status, content |-> body, next |-> next]

\* bytes.strip(): without the leading and trailing ASCII whitespace
IsSpace(ch) == ch \in {" ", "\n", "\t", "\r"}
RECURSIVE LStrip(_)
LStrip(s) == IF s # <<>> /\ IsSpace(Head(s)) THEN LStrip(Tail(s)) ELSE s
RECURSIVE RStrip(_)
RStrip(s) == IF s # <<>> /\ IsSpace(s[Len(s)]) THEN RStrip(SubSeq(s, 1, Len(s) - 1)) ELSE s
Strip(s) == RStrip(LStrip(s))

\* sub in s, for strings
IsSubstring(sub, s) ==
    \E i \in 0..(Len(s) - Len(sub)) : SubSeq(s, i + 1, i + Len(sub)) = sub

\* `key in v` for a string key: "true", "false" or "TypeError"
Contains(key, v) ==
    CASE v.t = "dict" -> IF key \in DOMAIN v.d THEN "true" ELSE "false"
      [] v.t = "list" -> IF \E i \in 1..Len(v.items) : v.items[i] = PyStr(KeyChars(key))
                         THEN "true" ELSE "false"
      [] v.t = "str"  -> IF IsSubstring(KeyChars(key), v.s) THEN "true" ELSE "false"
      [] OTHER        -> "TypeError"

\* Response.raise_for_status() raises HTTPError for 4xx and 5xx
RaisesForStatus(status) == 400 <= status /\ status < 600

\* str(err) of that HTTPError
HTTPErrorText(status) == PyStr(IntChars(status) \o <<" ", "E", "r", "r", "o", "r">>)

(***************************************************************************)
(* CanvasClient.__init__                                                   *)
(***************************************************************************)
NoClient == [built |-> FALSE]

S_tok == <<"t", "k">>
S_envtok == <<"e", "t">>
S_host == <<"h">>
S_hostSlash == <<"h", "/">>
S_bearer == <<"B", "e", "a", "r", "e", "r", " ">>

TokenArgs == {None, PyStr(<<>>), PyStr(S_tok)}
UrlArgs == {None, PyStr(<<>>), PyStr(S_host), PyStr(S_hostSlash)}
EnvTokens == {None, PyStr(<<>>), PyStr(S_envtok)}
EnvHosts == {None, PyStr(<<>>), PyStr(S_host)}

\* (mutant) the URL is kept as given
WithSlash_AsGiven(url) == url

\* "Ensure API URL ends with a slash"
WithSlash(url) == IF ~EndsWith(url, "/") THEN url \o <<"/">> ELSE url

\* CanvasGraphQLClient.__init__; urljoin(base, 'api/graphql') on a base that
\* ends with '/' appends the relative path
GraphQLInit(api_token, api_url) ==
    [api_token |-> api_token,
     api_url   |-> WithSlash(api_url) \o <<"a", "p", "i", "/", "g", "r", "a", "p", "h", "q", "l">>,
     headers   |-> [Authorization |-> S_bearer \o api_token]]

\* (mutant) the two checks test `is None` instead of falsiness
ClientInit_IsNone(api_token, api_url) ==
    LET token == PyOr(api_token, env.CANVAS_TOKEN)
        url   == PyOr(api_url, env.CANVAS_HOST)
    IN  IF token = None THEN Raised(Exc("ValueError"))
        ELSE IF url = None THEN Raised(Exc("ValueError"))
        ELSE Returned([built     |-> TRUE,
                       api_token |-> token.s,
                       api_url   |-> WithSlash(url.s),
                       headers   |-> [Authorization |-> S_bearer \o token.s],
                       graphql   |-> GraphQLInit(token.s, WithSlash(url.s))])

\* the result of CanvasClient(api_token, api_url): the client, or the raise
ClientInit(api_token, api_url) ==
    LET token == PyOr(api_token, env.CANVAS_TOKEN)
        url   == PyOr(api_url, env.CANVAS_HOST)
    IN  IF ~Truthy(token) THEN Raised(Exc("ValueError"))
        ELSE IF ~Truthy(url) THEN Raised(Exc("ValueError"))
        ELSE Returned([built     |-> TRUE,
                       api_token |-> token.s,
                       api_url   |-> WithSlash(url.s),
                       headers   |-> [Authorization |-> S_bearer \o token.s],
                       graphql   |-> GraphQLInit(token.s, WithSlash(url.s))])

NoCall == [op |-> "none"]
NoTool == [name |-> "none"]
\* the caller passed no dictionary
NotPassed == [t |-> "absent"]
\* the dictionary object the caller passed under `key`, if any
PassedDict(kwargs, key) == IF key \in DOMAIN kwargs THEN kwargs[key] ELSE NotPassed
\* the caller is between two calls
Idle == call = NoCall /\ tool = NoTool

Construct ==
    /\ client = NoClient
    /\ Idle
    /\ \E api_token \in TokenArgs, api_url \in UrlArgs :
          LET r == ClientInit(api_token, api_url)
          IN  /\ call' = [op |-> "CanvasClient", api_token |-> api_token, api_url |-> api_url]
              /\ outcome' = IF r.kind = "raise" THEN r ELSE Returned(None)
              /\ client' = IF r.kind = "raise" THEN client ELSE r.value
    /\ sent' = <<>>
    /\ received' = <<>>
    /\ UNCHANGED <<tool, passed, env, pgVars>>

(***************************************************************************)
(* CanvasClient._request and get / post / put / delete                     *)
(***************************************************************************)
S_apiV1 == <<"a", "p", "i", "/", "v", "1", "/">>
S_courses == <<"c", "o", "u", "r", "s", "e", "s">>

\* the keyword parameters of _request
RequestKeywords == {"params", "data", "json_data", "files"}

KwArg(kwargs, key) == IF key \in DOMAIN kwargs THEN kwargs[key] ELSE None

\* urljoin(self.api_url, f'api/v1/{endpoint}'): api_url ends with '/', so the
\* relative path is appended
RequestUrl(endpoint) == client.api_url \o S_apiV1 \o endpoint

\* what requests.request(...) puts on the wire
NetRequest(method, url, kwargs, headers) ==
    [method        |-> method,
     url           |-> url,
     params        |-> KwArg(kwargs, "params"),
     json          |-> KwArg(kwargs, "json_data"),
     authorization |-> headers.Authorization]

\* response.content.decode('utf-8') in the handler's inner `except:` : the
\* decoded text as the message, or the UnicodeDecodeError of the decoding
DecodedBodyError(status, body) ==
    IF body.utf8 THEN Raised(CanvasAPIError(status, PyStr(body.raw)))
    ELSE Raised(Exc("UnicodeDecodeError"))

\* the `except requests.exceptions.HTTPError` handler of _request
RequestError(status, body) ==
    IF body.raw = <<>> THEN Raised(CanvasAPIError(status, HTTPErrorText(status)))
    ELSE IF body.json = NotJson THEN DecodedBodyError(status, body)
    ELSE LET found == Contains("errors", body.json)
         IN  CASE found = "TypeError" -> DecodedBodyError(status, body)
               [] found = "true" ->
                     \* error_data['errors'] is a TypeError on a list or a str
                     IF body.json.t = "dict"
                     THEN Raised(CanvasAPIError(status, body.json.d.errors))
                     ELSE DecodedBodyError(status, body)
               [] found = "false" -> Raised(CanvasAPIError(status, HTTPErrorText(status)))

\* (mutant) only the empty body counts as no content
RequestValue_NoStrip(body) ==
    IF body.raw # <<>>
    THEN IF body.json = NotJson THEN Raised(Exc("JSONDecodeError")) ELSE Returned(body.json)
    ELSE Returned(None)

\* the success path of _request: the parsed body, or None for no content
RequestValue(body) ==
    IF body.raw # <<>> /\ Strip(body.raw) # <<>>
    THEN IF body.json = NotJson THEN Raised(Exc("JSONDecodeError")) ELSE Returned(body.json)
    ELSE Returned(None)

\* _request up to requests.request(...): the request put on the wire, or
\* the TypeError of a keyword _request does not take
RequestSend(method, endpoint, kwargs) ==
    IF ~(DOMAIN kwargs \subseteq RequestKeywords)
    THEN Raised(Exc("TypeError"))
    ELSE Returned(NetRequest(method, RequestUrl(endpoint), kwargs, client.headers))

\* _request from the return of requests.request(...): lines 87-107
RequestReceive(resp) ==
    IF ~resp.delivered THEN Raised(Exc("ConnectionError"))
    ELSE IF RaisesForStatus(resp.status_code)
         THEN RequestError(resp.status_code, resp.content)
         ELSE RequestValue(resp.content)

Methods == {"GET", "POST", "PUT", "DELETE"}
Responses == {Response(st, b, 0) : st \in Statuses, b \in Bodies} \cup {NetFailure}
KwargsArgs == {<<>>, [params |-> PyDict([x |-> PyInt(1)])], [page |-> PyInt(1)]}

Pending == [kind |-> "pending"]

\* client.get / post / put / delete(endpoint, **kwargs), up to the network call
RestSend ==
    /\ client # NoClient
    /\ Idle
    /\ \E method \in Methods, kwargs \in KwargsArgs :
          LET r == RequestSend(method, S_courses, kwargs)
          IN  /\ call' = [op |-> "request", method |-> method, endpoint |-> S_courses,
                          kwargs |-> kwargs]
              /\ outcome' = IF r.kind = "raise" THEN r ELSE Pending
              /\ sent' = IF r.kind = "raise" THEN <<>> ELSE <<r.value>>
              /\ passed' = PassedDict(kwargs, "params")
    /\ received' = <<>>
    /\ UNCHANGED <<tool, env, client, pgVars>>

\* (mutant) a failed call is tried once more
RestReceive_Retry ==
    /\ call.op = "request"
    /\ outcome = Pending
    /\ \E resp \in Responses :
          LET r     == RequestReceive(resp)
              again == r.kind = "raise" /\ Len(sent) = 1
          IN  /\ received' = IF again THEN received ELSE <<resp>>
              /\ sent' = IF again THEN Append(sent, sent[1]) ELSE sent
              /\ outcome' = IF again THEN Pending ELSE r
    /\ UNCHANGED <<tool, passed, env, client, call, pgVars>>

\* ... and from the network's answer to the return or the raise
RestReceive ==
    /\ call.op = "request"
    /\ outcome = Pending
    /\ \E resp \in Responses :
          /\ received' = <<resp>>
          /\ outcome' = RequestReceive(resp)
    /\ UNCHANGED <<tool, passed, env, client, call, sent, pgVars>>

(***************************************************************************)
(* CanvasGraphQLClient.query                                               *)
(***************************************************************************)
\* the `except requests.exceptions.HTTPError` handler of query
QueryError(status, body) ==
    IF body.raw = <<>> THEN Raised(CanvasAPIError(status, HTTPErrorText(status)))
    ELSE IF body.json = NotJson THEN DecodedBodyError(status, body)
    ELSE LET found == Contains("errors", body.json)
         IN  CASE found = "TypeError" -> DecodedBodyError(status, body)
               [] found = "true" ->
                     IF body.json.t = "dict"
                     THEN Raised(CanvasAPIError(status, body.json.d.errors))
                     ELSE DecodedBodyError(status, body)
               [] found = "false" -> Raised(CanvasAPIError(status, HTTPErrorText(status)))

\* (mutant) the body's 'errors' are not looked at
QueryValue_NoErrorsCheck(status, body) ==
    IF body.json = NotJson THEN Raised(Exc("JSONDecodeError"))
    ELSE IF body.json.t = "dict"
         THEN Returned(IF "data" \in DOMAIN body.json.d THEN body.json.d.data ELSE EmptyDict)
         ELSE Raised(Exc("AttributeError"))

\* the `try` block of query after raise_for_status(): response.json(), the
\* check of 'errors', and result.get('data', {})
QueryValue(status, body) ==
    IF body.json = NotJson THEN Raised(Exc("JSONDecodeError"))
    ELSE LET result == body.json
             found  == Contains("errors", result)
         IN  CASE found = "TypeError" -> Raised(Exc("TypeError"))
               [] found = "true" ->
                     IF result.t = "dict"
                     THEN Raised(CanvasAPIError(status, result.d.errors))
                     ELSE Raised(Exc("TypeError"))
               [] found = "false" ->
                     IF result.t = "dict"
                     THEN Returned(IF "data" \in DOMAIN result.d THEN result.d.data
                                   ELSE EmptyDict)
                     ELSE Raised(Exc("AttributeError"))

\* query(query, variables) up to requests.post(...)
QuerySend(gql) ==
    [method |-> "POST", url |-> gql.api_url, params |-> None,
     json |-> PyDict([query |-> PyStr(<<"q">>), variables |-> EmptyDict]),
     authorization |-> gql.headers.Authorization]

\* query from the return of requests.post(...)
QueryReceive(resp) ==
    IF ~resp.delivered THEN Raised(Exc("ConnectionError"))
    ELSE IF RaisesForStatus(resp.status_code)
         THEN QueryError(resp.status_code, resp.content)
         ELSE QueryValue(resp.status_code, resp.content)

\* client.graphql.query(query), up to the network call
GraphQLSend ==
    /\ client # NoClient
    /\ Idle
    /\ call' = [op |-> "query"]
    /\ outcome' = Pending
    /\ sent' = <<QuerySend(client.graphql)>>
    /\ received' = <<>>
    /\ UNCHANGED <<tool, passed, env, client, pgVars>>

\* the bodies a GraphQL endpoint answers with: `errors`, when present, is a list
GraphQLResponses == {r \in Responses : r.delivered => r.content # JsonBody(V_errorsStr)}

GraphQLReceive ==
    /\ call.op = "query"
    /\ outcome = Pending
    /\ \E resp \in GraphQLResponses :
          /\ received' = <<resp>>
          /\ outcome' = QueryReceive(resp)
    /\ UNCHANGED <<tool, passed, env, client, call, sent, pgVars>>

(***************************************************************************)
(* The server's side of a paginated collection.                            *)
(***************************************************************************)
S_pageQuery == <<"?", "p", "a", "g", "e", "=">>

\* the endpoint of page k of the collection being listed: page 1 is the
\* collection itself
PageEndpoint(k) ==
    IF k = 1 THEN call.endpoint ELSE call.endpoint \o S_pageQuery \o IntChars(k)

\* the due date of the j-th assignment of a page: a date, none, a later date
S_dueMar28 == <<"2", "0", "2", "4", "-", "0", "3", "-", "2", "8", "T",
                "2", "3", ":", "5", "9", ":", "5", "9", "Z">>
S_dueApr10 == <<"2", "0", "2", "4", "-", "0", "4", "-", "1", "0", "T",
                "1", "2", ":", "0", "0", ":", "0", "0", "Z">>
DueAt(j) == IF j % 3 = 1 THEN PyStr(S_dueMar28) ELSE IF j % 3 = 2 THEN None ELSE PyStr(S_dueApr10)

\* item j of page k: an assignment when assignments are listed, else a course
Item(k, j) ==
    IF call.op = "list" /\ call.facade = "Assignments"
    THEN PyDict([id |-> PyInt(10 * k + j), due_at |-> DueAt(j)])
    ELSE PyDict([id |-> PyInt(10 * k + j)])
PageItems(size, k) == [j \in 1..size |-> Item(k, j)]

V_object == PyDict([id |-> PyInt(7), name |-> PyStr(<<"c">>)])

\* a collection of n pages: page k holds sizes[k] items and advertises page
\* k + 1 as `next`; the last page advertises nothing, or (loop) page 1 again;
\* page `bad`, if any, answers with a single object or with an error instead
Collection(n, sizes, bad, badKind, loop) ==
    [k \in 1..n |->
        [kind |-> IF k = bad THEN badKind ELSE "array",
         size |-> IF k = bad THEN 0 ELSE sizes[k],
         next |-> IF k < n THEN k + 1 ELSE IF loop THEN 1 ELSE 0]]

Collections ==
    UNION {{Collection(n, sizes, bad, badKind, loop) :
                sizes \in [1..n -> 0..MaxItems], bad \in 0..n,
                badKind \in {"object", "error"}, loop \in BOOLEAN} : n \in 1..MaxPages}

\* the collections a facade's list is run against: one or two pages, the
\* second of one item, the first page possibly an object or an error
ListCollections ==
    {Collection(n, [k \in 1..n |-> IF k = 1 THEN size ELSE 1], bad, badKind, FALSE) :
        n \in 1..2, size \in 0..MaxItems, bad \in 0..1, badKind \in {"object", "error"}}

\* the server's answer to a GET of page k of collection c
PageResponse(c, k) ==
    CASE c[k].kind = "array"  ->
            Response(200, JsonBody(PyList(PageItems(c[k].size, k))), c[k].next)
      [] c[k].kind = "object" -> Response(200, JsonBody(V_object), c[k].next)
      [] c[k].kind = "error"  -> Response(500, JsonBody(V_errorsStr), 0)

\* the page an endpoint names (0 when it names none)
PageOf(c, endpoint) ==
    IF \E k \in 1..Len(c) : PageEndpoint(k) = endpoint
    THEN CHOOSE k \in 1..Len(c) : PageEndpoint(k) = endpoint
    ELSE 0

(***************************************************************************)
(* CanvasClient.paginate, a generator: it runs only while the consumer     *)
(* waits in next(), from one yield to the following one.                   *)
(***************************************************************************)
DefaultPerPage == 100

\* lines 170-176: kwargs with params['per_page'] defaulted
PaginateDefaults(kwargs) ==
    LET params == IF "params" \in DOMAIN kwargs THEN kwargs.params ELSE EmptyDict
        filled == IF "per_page" \in DOMAIN params.d THEN params
                  ELSE PyDict([k \in DOMAIN params.d \cup {"per_page"} |->
                                 IF k = "per_page" THEN PyInt(DefaultPerPage)
                                 ELSE params.d[k]])
    IN  [k \in DOMAIN kwargs \cup {"params"} |-> IF k = "params" THEN filled ELSE kwargs[k]]

\* isinstance(response, list)
IsList(v) == v.t = "list"

\* hasattr(v, name): the attributes of a value are the fields of its record
HasAttr(v, name) == name \in DOMAIN v

\* s.split(sep): the part of s after the first sep, up to the following one;
\* NoPart when s holds no sep (split(...)[1] raises IndexError)
NoPart == <<"<IndexError>">>
IndexOf(s, sep) ==
    IF IsSubstring(sep, s)
    THEN CHOOSE i \in 1..Len(s) :
            /\ i + Len(sep) - 1 <= Len(s)
            /\ SubSeq(s, i, i + Len(sep) - 1) = sep
            /\ \A j \in 1..(i - 1) : SubSeq(s, j, j + Len(sep) - 1) # sep
    ELSE 0
SecondPart(s, sep) ==
    LET i    == IndexOf(s, sep)
        rest == SubSeq(s, i + Len(sep), Len(s))
        j    == IndexOf(rest, sep)
    IN  IF i = 0 THEN NoPart ELSE IF j = 0 THEN rest ELSE SubSeq(rest, 1, j - 1)

\* (mutant) the `next` link is read from the HTTP response's Link header
NextEndpoint_FromLinkHeader(response) ==
    LET resp == received[Len(received)]
    IN  IF resp.next = 0 THEN <<>> ELSE PageEndpoint(resp.next)

\* lines 186-199, after the items of `response` were yielded: the endpoint
\* of the next page, or <<>> to break out of the loop.  `response` is the
\* value _request returned (the parsed JSON body), not the Response object
NextEndpoint(response) ==
    LET links == IF HasAttr(response, "links") /\ Truthy(response.links)
                 THEN response.links ELSE EmptyDict
    IN  IF "next" \notin DOMAIN links.d THEN <<>>
        ELSE SecondPart(links.d.next.d.url.s, <<"/">> \o S_apiV1)

\* the generator is exhausted: next() raises StopIteration, and a facade's
\* list(self.client.paginate(...)) returns the items collected (Assignments
\* wraps them in a dict)
PgFinish ==
    IF call.op = "paginate" THEN Returned(None)
    ELSE IF call.facade = "Assignments"
         THEN Returned(PyDict([assignments |-> PyList(yielded)]))
         ELSE Returned(PyList(yielded))

PaginateKwargs == {<<>>, [params |-> PyDict([x |-> PyInt(1)])], [page |-> PyInt(1)]}

\* (mutant) the first page is requested when the generator is created
PgCall_Eager ==
    /\ client # NoClient
    /\ Idle
    /\ \E kwargs \in {<<>>, [params |-> PyDict([x |-> PyInt(1)])]} :
          /\ call' = [op |-> "paginate", endpoint |-> S_courses, kwargs |-> kwargs]
          /\ pgKwargs' = PaginateDefaults(kwargs)
          /\ passed' = PassedDict(PaginateDefaults(kwargs), "params")
          /\ sent' = <<RequestSend("GET", S_courses, PaginateDefaults(kwargs)).value>>
    /\ pgPc' = "get"
    /\ pgEndpoint' = S_courses
    /\ pgResponse' = None
    /\ pgIdx' = 0
    /\ yielded' = <<>>
    /\ want' = FALSE
    /\ server' = <<>>
    /\ outcome' = NoOutcome
    /\ received' = <<>>
    /\ UNCHANGED <<tool, env, client>>

\* client.paginate(endpoint, **kwargs): creates the generator; no line of its
\* body runs yet
PgCall ==
    /\ client # NoClient
    /\ Idle
    /\ \E kwargs \in PaginateKwargs :
          /\ call' = [op |-> "paginate", endpoint |-> S_courses, kwargs |-> kwargs]
          /\ pgKwargs' = kwargs
          /\ passed' = PassedDict(kwargs, "params")
    /\ pgPc' = "start"
    /\ pgEndpoint' = S_courses
    /\ pgResponse' = None
    /\ pgIdx' = 0
    /\ yielded' = <<>>
    /\ want' = FALSE
    /\ server' = <<>>
    /\ outcome' = NoOutcome
    /\ sent' = <<>>
    /\ received' = <<>>
    /\ UNCHANGED <<tool, env, client>>

\* the consumer calls next() on the generator
PgAsk ==
    /\ pgPc \notin {"idle", "done", "raised"}
    /\ ~want
    /\ want' = TRUE
    /\ UNCHANGED <<tool, passed, env, client, call, outcome, sent, received, server,
                   pgPc, pgEndpoint, pgKwargs, pgResponse, pgIdx, yielded>>

\* lines 170-179: (on the first run, the defaults, then) `while endpoint:`
\* and self.get(endpoint, **kwargs) up to the network call
PgSend ==
    /\ want
    /\ pgPc \in {"start", "loop"}
    /\ LET kwargs == IF pgPc = "start" THEN PaginateDefaults(pgKwargs) ELSE pgKwargs
           r      == RequestSend("GET", pgEndpoint, kwargs)
       IN  /\ pgKwargs' = kwargs
           /\ passed' = IF passed # NotPassed THEN kwargs.params ELSE passed
           /\ IF pgEndpoint = <<>>
              THEN /\ pgPc' = "done"
                   /\ outcome' = PgFinish
                   /\ want' = FALSE
                   /\ sent' = sent
              ELSE IF r.kind = "raise"
              THEN /\ pgPc' = "raised"
                   /\ outcome' = r
                   /\ want' = FALSE
                   /\ sent' = sent
              ELSE /\ pgPc' = "get"
                   /\ outcome' = outcome
                   /\ want' = want
                   /\ sent' = Append(sent, r.value)
    /\ UNCHANGED <<tool, env, client, call, received, server, pgEndpoint, pgResponse, pgIdx,
                   yielded>>

\* (mutant) a failed page fetch ends the sequence as if it were exhausted
PgReceive_EndsOnError ==
    /\ pgPc = "get"
    /\ \E c \in (IF received # <<>> THEN {server}
                ELSE IF call.op = "paginate" THEN Collections ELSE ListCollections) :
          LET k    == PageOf(c, pgEndpoint)
              resp == IF k = 0 THEN Response(404, JsonBody(V_errorsStr), 0)
                      ELSE PageResponse(c, k)
              r    == RequestReceive(resp)
          IN  /\ server' = c
              /\ received' = Append(received, resp)
              /\ IF r.kind = "raise"
                 THEN /\ pgPc' = "done"
                      /\ outcome' = PgFinish
                      /\ want' = FALSE
                      /\ UNCHANGED <<pgResponse, pgIdx>>
                 ELSE /\ pgResponse' = r.value
                      /\ pgPc' = IF IsList(r.value) THEN "for" ELSE "object"
                      /\ pgIdx' = 1
                      /\ UNCHANGED <<outcome, want>>
    /\ UNCHANGED <<tool, passed, env, client, call, sent, pgEndpoint, pgKwargs, yielded>>

\* self.get returns or raises: the server answers the first request out of
\* the collection it holds, and every later one from the same collection
PgReceive ==
    /\ pgPc = "get"
    /\ \E c \in (IF received # <<>> THEN {server}
                ELSE IF call.op = "paginate" THEN Collections ELSE ListCollections) :
          LET k    == PageOf(c, pgEndpoint)
              resp == IF k = 0 THEN Response(404, JsonBody(V_errorsStr), 0)
                      ELSE PageResponse(c, k)
              r    == RequestReceive(resp)
          IN  /\ server' = c
              /\ received' = Append(received, resp)
              /\ IF r.kind = "raise"
                 THEN /\ pgPc' = "raised"
                      /\ outcome' = r
                      /\ want' = FALSE
                      /\ UNCHANGED <<pgResponse, pgIdx>>
                 ELSE /\ pgResponse' = r.value
                      /\ pgPc' = IF IsList(r.value) THEN "for" ELSE "object"
                      /\ pgIdx' = 1
                      /\ UNCHANGED <<outcome, want>>
    /\ UNCHANGED <<tool, passed, env, client, call, sent, pgEndpoint, pgKwargs, yielded>>

\* lines 183-184: `for item in response: yield item`
PgYieldItem ==
    /\ want
    /\ pgPc = "for"
    /\ pgIdx <= Len(pgResponse.items)
    /\ yielded' = Append(yielded, pgResponse.items[pgIdx])
    /\ pgIdx' = pgIdx + 1
    /\ want' = FALSE
    /\ UNCHANGED <<tool, passed, env, client, call, outcome, sent, received, server,
                   pgPc, pgEndpoint, pgKwargs, pgResponse>>

\* lines 186-199: the page is exhausted; break, or go on with the next page
PgLinks ==
    /\ want
    /\ pgPc = "for"
    /\ pgIdx > Len(pgResponse.items)
    /\ LET next == NextEndpoint(pgResponse)
       IN  IF next = <<>>
           THEN /\ pgPc' = "done"
                /\ outcome' = PgFinish
                /\ want' = FALSE
                /\ pgEndpoint' = pgEndpoint
           ELSE IF next = NoPart
           THEN /\ pgPc' = "raised"
                /\ outcome' = Raised(Exc("IndexError"))
                /\ want' = FALSE
                /\ pgEndpoint' = pgEndpoint
           ELSE /\ pgPc' = "loop"
                /\ outcome' = outcome
                /\ want' = want
                /\ pgEndpoint' = next
    /\ UNCHANGED <<tool, passed, env, client, call, sent, received, server, pgKwargs, pgResponse,
                   pgIdx, yielded>>

\* lines 200-202: a response that is not a list is yielded once
PgYieldObject ==
    /\ want
    /\ pgPc = "object"
    /\ yielded' = Append(yielded, pgResponse)
    /\ pgPc' = "break"
    /\ want' = FALSE
    /\ UNCHANGED <<tool, passed, env, client, call, outcome, sent, received, server,
                   pgEndpoint, pgKwargs, pgResponse, pgIdx>>

\* (mutant) the `break` is missing: the loop goes round again
PgBreak_NoBreak ==
    /\ want
    /\ pgPc = "break"
    /\ pgPc' = "loop"
    /\ UNCHANGED <<tool, passed, env, client, call, outcome, sent, received, server,
                   pgEndpoint, pgKwargs, pgResponse, pgIdx, yielded, want>>

\* line 203: break, and the generator ends
PgBreak ==
    /\ want
    /\ pgPc = "break"
    /\ pgPc' = "done"
    /\ outcome' = PgFinish
    /\ want' = FALSE
    /\ UNCHANGED <<tool, passed, env, client, call, sent, received, server,
                   pgEndpoint, pgKwargs, pgResponse, pgIdx, yielded>>

\* the caller takes the result of the finished call (a returned value, a
\* raised exception, an exhausted or failed generator) and drops it
Forget ==
    /\ \/ tool = NoTool /\ outcome.kind \in {"return", "raise"}
       \/ tool # NoTool /\ tool.pc = "done"
    /\ tool' = NoTool
    /\ call' = NoCall
    /\ outcome' = NoOutcome
    /\ sent' = <<>>
    /\ received' = <<>>
    /\ server' = <<>>
    /\ pgPc' = "idle"
    /\ pgEndpoint' = <<>>
    /\ pgKwargs' = <<>>
    /\ pgResponse' = None
    /\ pgIdx' = 0
    /\ yielded' = <<>>
    /\ want' = FALSE
    /\ passed' = NotPassed
    /\ UNCHANGED <<env, client>>

(***************************************************************************)
(* The resource facades: id coercion and the `get` of each facade.         *)
(***************************************************************************)
S_users == <<"u", "s", "e", "r", "s">>
S_assignments == <<"a", "s", "s", "i", "g", "n", "m", "e", "n", "t", "s">>
S_modules == <<"m", "o", "d", "u", "l", "e", "s">>
S_files == <<"f", "i", "l", "e", "s">>
S_slash == <<"/">>

\* BaseResource._get_item_id
BaseGetItemId(item) ==
    IF item.t = "dict" /\ "id" \in DOMAIN item.d THEN PyStr(Str(item.d.id))
    ELSE PyStr(Str(item))

\* Assignments._get_item_id, which overrides it
AssignmentsGetItemId(item_id) ==
    IF item_id # None THEN PyStr(Str(item_id)) ELSE None

\* self._get_item_id of a facade
GetItemId(facade, item) ==
    IF facade = "Assignments" THEN AssignmentsGetItemId(item) ELSE BaseGetItemId(item)

\* the f-string of the facade's get, from the coerced ids
GetEndpoint(facade, id1, id2) ==
    CASE facade = "Courses"     -> S_courses \o S_slash \o Str(id1)
      [] facade = "Users"       -> S_users \o S_slash \o Str(id1)
      [] facade = "Files"       -> S_files \o S_slash \o Str(id1)
      [] facade = "Assignments" -> S_courses \o S_slash \o Str(id1) \o S_slash
                                     \o S_assignments \o S_slash \o Str(id2)
      [] facade = "Modules"     -> S_courses \o S_slash \o Str(id1) \o S_slash
                                     \o S_modules \o S_slash \o Str(id2)

\* the kwargs the facade's get hands to client.get when called with ids only:
\* Courses, Assignments and Modules set kwargs['params'], Users and Files do not
GetKwargs(facade) ==
    IF facade \in {"Courses", "Assignments", "Modules"} THEN [params |-> EmptyDict]
    ELSE <<>>

Facades == {"Courses", "Users", "Assignments", "Modules", "Files"}
TwoIds(facade) == facade \in {"Assignments", "Modules"}

S_42 == <<"4", "2">>
IdArgs ==
    {PyInt(42), PyStr(S_42), PyInt(7),
     PyDict([id |-> PyInt(42)]),
     PyDict([id |-> PyInt(7), name |-> PyStr(<<"c">>)]),
     PyDict([id |-> PyStr(S_42)])}
SecondIdArgs == {PyInt(5), PyDict([id |-> PyInt(5)])}

\* an object without a name
V_noName == PyDict([id |-> PyInt(7)])

FacadeResponses ==
    {Response(200, JsonBody(V_object), 0), Response(200, JsonBody(V_noName), 0),
     Response(200, B_empty, 0), Response(200, B_html, 0),
     Response(404, JsonBody(V_errorsStr), 0), NetFailure}

\* client.<facade>.get(ids), up to the network call
FacadeGetSend ==
    /\ client # NoClient
    /\ Idle
    /\ \E facade \in Facades, item1 \in IdArgs, item2 \in SecondIdArgs :
          LET id1      == GetItemId(facade, item1)
              id2      == IF TwoIds(facade) THEN GetItemId(facade, item2) ELSE None
              endpoint == GetEndpoint(facade, id1, id2)
              r        == RequestSend("GET", endpoint, GetKwargs(facade))
          IN  /\ call' = [op |-> "facade_get", facade |-> facade, item1 |-> item1,
                          item2 |-> IF TwoIds(facade) THEN item2 ELSE None,
                          endpoint |-> endpoint]
              /\ outcome' = IF r.kind = "raise" THEN r ELSE Pending
              /\ sent' = IF r.kind = "raise" THEN <<>> ELSE <<r.value>>
    /\ received' = <<>>
    /\ UNCHANGED <<tool, passed, env, client, pgVars>>

\* ... and from the network's answer: the facade returns what client.get
\* returns and lets what it raises through
FacadeGetReceive ==
    /\ call.op = "facade_get"
    /\ outcome = Pending
    /\ \E resp \in FacadeResponses :
          /\ received' = <<resp>>
          /\ outcome' = RequestReceive(resp)
    /\ UNCHANGED <<tool, passed, env, client, call, sent, pgVars>>

(***************************************************************************)
(* Files.upload: the init POST through the client, then a direct POST to   *)
(* the upload URL the server named.                                        *)
(***************************************************************************)
S_uploadUrl == <<"u", "/", "u", "p">>

V_uploadParams == PyDict([key |-> PyStr(<<"k">>)])
V_init == PyDict([upload_url |-> PyStr(S_uploadUrl), upload_params |-> V_uploadParams])
V_initNoParams == PyDict([upload_url |-> PyStr(S_uploadUrl)])
V_initNullUrl == PyDict([upload_url |-> None, upload_params |-> V_uploadParams])
V_initNoUrl == PyDict([upload_params |-> V_uploadParams])

\* no `headers=` argument: the request carries no Authorization header
NoAuthorization == <<>>

\* d.get(key, default) on a dict
DictGet(d, key, default) == IF key \in DOMAIN d.d THEN d.d[key] ELSE default

\* the file content: bytes of a known length, or a file-like object
Contents == {[bytes |-> TRUE, len |-> 3], [bytes |-> FALSE, len |-> 0]}

\* lines 97-105: json_data without its None values
UploadJson(name, content, content_type, parent_folder_id) ==
    IF content.bytes
    THEN PyDict([name |-> name, size |-> PyInt(content.len), content_type |-> content_type,
                 parent_folder_id |-> parent_folder_id])
    ELSE PyDict([name |-> name, content_type |-> content_type,
                 parent_folder_id |-> parent_folder_id])

\* line 107: self.client.post('files', json_data=json_data, **kwargs)
UploadInitSend(json_data, kwargs) ==
    IF "json_data" \in DOMAIN kwargs THEN Raised(Exc("TypeError"))
    ELSE RequestSend("POST", S_files,
                     [k \in DOMAIN kwargs \cup {"json_data"} |->
                        IF k = "json_data" THEN json_data ELSE kwargs[k]])

\* what requests.post(upload_url, data=upload_params, files=files) puts on the wire
UploadRequest(upload_url, upload_params, files, authorization) ==
    [method        |-> "POST",
     url           |-> upload_url.s,
     params        |-> None,
     json          |-> None,
     data          |-> upload_params,
     files         |-> files,
     authorization |-> authorization]

\* (mutant) the missing upload URL is not checked
UploadStep2_NoCheck(init_response, files) ==
    IF init_response.t # "dict" THEN Raised(Exc("AttributeError"))
    ELSE LET upload_url    == DictGet(init_response, "upload_url", None)
             upload_params == DictGet(init_response, "upload_params", EmptyDict)
         IN  Returned(UploadRequest(IF upload_url = None THEN PyStr(<<>>) ELSE upload_url,
                                    upload_params, files, NoAuthorization))

\* (mutant) the upload goes out with the client's headers
UploadStep2_WithHeaders(init_response, files) ==
    IF init_response.t # "dict" THEN Raised(Exc("AttributeError"))
    ELSE LET upload_url    == DictGet(init_response, "upload_url", None)
             upload_params == DictGet(init_response, "upload_params", EmptyDict)
         IN  IF ~Truthy(upload_url) THEN Raised(Exc("ValueError"))
             ELSE Returned(UploadRequest(upload_url, upload_params, files,
                                         client.headers.Authorization))

\* lines 109-121, from the init response to requests.post(...): the request
\* to the upload URL, or the raise
UploadStep2(init_response, files) ==
    IF init_response.t # "dict" THEN Raised(Exc("AttributeError"))
    ELSE LET upload_url    == DictGet(init_response, "upload_url", None)
             upload_params == DictGet(init_response, "upload_params", EmptyDict)
         IN  IF ~Truthy(upload_url) THEN Raised(Exc("ValueError"))
             ELSE Returned(UploadRequest(upload_url, upload_params, files, NoAuthorization))

\* lines 122-125: raise_for_status() and upload_response.json()
UploadResult(resp) ==
    IF ~resp.delivered THEN Raised(Exc("ConnectionError"))
    ELSE IF RaisesForStatus(resp.status_code) THEN Raised(Exc("HTTPError"))
    ELSE IF resp.content.json = NotJson THEN Raised(Exc("JSONDecodeError"))
    ELSE Returned(resp.content.json)

FolderArgs == {PyInt(42), PyDict([id |-> PyInt(42)])}
UploadKwargs == {<<>>, [params |-> PyDict([x |-> PyInt(1)])]}

UploadInitResponses ==
    {Response(200, JsonBody(v), 0) :
        v \in {V_init, V_initNoParams, V_initNullUrl, V_initNoUrl, EmptyDict}}
    \cup {Response(200, B_empty, 0), Response(404, JsonBody(V_errorsStr), 0), NetFailure}

UploadResponses ==
    {Response(201, JsonBody(V_object), 0), Response(200, B_empty, 0),
     Response(500, B_html, 0), NetFailure}

\* client.files.upload(parent_folder_id, name, content, content_type, **kwargs),
\* up to the network call of the init POST
UploadSend ==
    /\ client # NoClient
    /\ Idle
    /\ \E folder \in FolderArgs, content \in Contents, kwargs \in UploadKwargs :
          LET name      == PyStr(<<"f">>)
              ctype     == PyStr(<<"t">>)
              json_data == UploadJson(name, content, ctype, BaseGetItemId(folder))
              r         == UploadInitSend(json_data, kwargs)
          IN  /\ call' = [op |-> "upload", parent_folder_id |-> folder, name |-> name,
                          content |-> content, content_type |-> ctype, kwargs |-> kwargs]
              /\ outcome' = IF r.kind = "raise" THEN r ELSE Pending
              /\ sent' = IF r.kind = "raise" THEN <<>> ELSE <<r.value>>
              /\ passed' = PassedDict(kwargs, "params")
    /\ received' = <<>>
    /\ UNCHANGED <<tool, env, client, pgVars>>

\* the init POST returns or raises; on an upload URL, the direct POST goes out
UploadInitReceive ==
    /\ call.op = "upload"
    /\ outcome = Pending
    /\ received = <<>>
    /\ \E resp \in UploadInitResponses :
          LET r     == RequestReceive(resp)
              files == [file |-> <<call.name, call.content, call.content_type>>]
              u     == IF r.kind = "raise" THEN r ELSE UploadStep2(r.value, files)
          IN  /\ received' = <<resp>>
              /\ outcome' = IF u.kind = "raise" THEN u ELSE Pending
              /\ sent' = IF u.kind = "raise" THEN sent ELSE Append(sent, u.value)
    /\ UNCHANGED <<tool, passed, env, client, call, pgVars>>

\* the upload host answers
UploadReceive ==
    /\ call.op = "upload"
    /\ outcome = Pending
    /\ Len(received) = 1
    /\ \E resp \in UploadResponses :
          /\ received' = Append(received, resp)
          /\ outcome' = UploadResult(resp)
    /\ UNCHANGED <<tool, passed, env, client, call, sent, pgVars>>

(***************************************************************************)
(* The create operations of the facades.                                   *)
(***************************************************************************)
CreateOps ==
    {"Courses.create", "Assignments.create", "Modules.create", "Modules.create_item",
     "Files.create_folder"}

\* the facade an operation belongs to
FacadeOf(op) ==
    CASE op = "Courses.create"      -> "Courses"
      [] op = "Assignments.create"  -> "Assignments"
      [] op = "Files.create_folder" -> "Files"
      [] OTHER                      -> "Modules"

S_folders == <<"f", "o", "l", "d", "e", "r", "s">>
S_items == <<"i", "t", "e", "m", "s">>

\* the endpoint each create posts to, from the coerced ids
CreateEndpoint(op, args) ==
    CASE op = "Courses.create" -> S_courses
      [] op = "Assignments.create" ->
            S_courses \o S_slash \o Str(AssignmentsGetItemId(args.course_id))
               \o S_slash \o S_assignments
      [] op = "Modules.create" ->
            S_courses \o S_slash \o Str(BaseGetItemId(args.course_id)) \o S_slash \o S_modules
      [] op = "Modules.create_item" ->
            S_courses \o S_slash \o Str(BaseGetItemId(args.course_id)) \o S_slash \o S_modules
               \o S_slash \o Str(BaseGetItemId(args.module_id)) \o S_slash \o S_items
      [] op = "Files.create_folder" -> S_folders

\* the fields each create writes into json_data, with the values it writes
CreateFields(op, args) ==
    CASE op = "Courses.create" ->
            [k \in {"course[name]"}
                  \cup (IF Truthy(args.course_code) THEN {"course[course_code]"} ELSE {}) |->
               IF k = "course[name]" THEN args.name ELSE args.course_code]
      [] op = "Assignments.create" ->
            [k \in {"assignment[name]", "assignment[points_possible]"} |->
               IF k = "assignment[name]" THEN args.name ELSE args.points_possible]
      [] op = "Modules.create" ->
            [k \in {"module[name]"} |-> args.name]
      [] op = "Modules.create_item" ->
            [k \in {"module_item[title]", "module_item[type]", "module_item[content_id]"} |->
               CASE k = "module_item[title]" -> args.title
                 [] k = "module_item[type]"  -> args.type
                 [] OTHER                    -> BaseGetItemId(args.content_id)]
      [] op = "Files.create_folder" ->
            [k \in {"name", "parent_folder_id"} |->
               IF k = "name" THEN args.name ELSE BaseGetItemId(args.parent_folder_id)]

\* (mutant) a field the caller supplied is kept: json_data.setdefault(key, value)
CreateJson_CallerWins(op, args, kwargs) ==
    LET json_data == IF "json_data" \in DOMAIN kwargs THEN kwargs.json_data ELSE EmptyDict
        fields    == CreateFields(op, args)
    IN  PyDict([k \in DOMAIN json_data.d \cup DOMAIN fields |->
                  IF k \in DOMAIN json_data.d THEN json_data.d[k] ELSE fields[k]])

\* json_data = kwargs.get('json_data', {}) and the assignments json_data[key] = value
CreateJson(op, args, kwargs) ==
    LET json_data == IF "json_data" \in DOMAIN kwargs THEN kwargs.json_data ELSE EmptyDict
        fields    == CreateFields(op, args)
    IN  PyDict([k \in DOMAIN json_data.d \cup DOMAIN fields |->
                  IF k \in DOMAIN fields THEN fields[k] ELSE json_data.d[k]])

\* kwargs['json_data'] = json_data
CreateKwargs(op, args, kwargs) ==
    [k \in DOMAIN kwargs \cup {"json_data"} |->
       IF k = "json_data" THEN CreateJson(op, args, kwargs) ELSE kwargs[k]]

S_old == <<"o", "l", "d">>

\* the arguments a caller gives each create
CreateArgs(op) ==
    CASE op = "Courses.create" ->
            {[name |-> PyStr(<<"n">>), course_code |-> cc] :
                cc \in {None, PyStr(<<>>), PyStr(<<"c", "c">>)}}
      [] op = "Assignments.create" ->
            {[course_id |-> c, name |-> PyStr(<<"n">>), points_possible |-> pp] :
                c \in {PyStr(S_42), PyInt(7)}, pp \in {PyInt(0), PyInt(100)}}
      [] op = "Modules.create" ->
            {[course_id |-> c, name |-> PyStr(<<"n">>)] : c \in FolderArgs}
      [] op = "Modules.create_item" ->
            {[course_id |-> PyInt(42), module_id |-> PyInt(5), title |-> PyStr(<<"t">>),
              type |-> PyStr(<<"F", "i", "l", "e">>), content_id |-> c] : c \in SecondIdArgs}
      [] op = "Files.create_folder" ->
            {[name |-> PyStr(<<"n">>), parent_folder_id |-> f] : f \in FolderArgs}

\* ... and the keyword arguments: none, extra fields, extra fields of which
\* one has the key of a field the operation writes, query parameters, and a
\* keyword _request does not take
CreateKwargsArgs(op, args) ==
    LET fields == CreateFields(op, args)
        taken  == CHOOSE k \in DOMAIN fields : TRUE
    IN  {<<>>,
         [json_data |-> EmptyDict],
         [json_data |-> PyDict([x |-> PyInt(1)])],
         [json_data |-> PyDict([k \in {taken, "x"} |->
                                  IF k = "x" THEN PyInt(1) ELSE PyStr(S_old)])],
         [json_data |-> PyDict([k \in DOMAIN fields |-> PyStr(S_old)])],
         [params |-> PyDict([x |-> PyInt(1)])],
         [page |-> PyInt(1)]}

\* client.<facade>.create...(...), up to the network call
CreateSend ==
    /\ client # NoClient
    /\ Idle
    /\ \E op \in CreateOps :
         \E args \in CreateArgs(op) :
           \E kwargs \in CreateKwargsArgs(op, args) :
              LET endpoint == CreateEndpoint(op, args)
                  r        == RequestSend("POST", endpoint, CreateKwargs(op, args, kwargs))
              IN  /\ call' = [op |-> "create", create |-> op, facade |-> FacadeOf(op),
                              args |-> args, kwargs |-> kwargs, endpoint |-> endpoint]
                  /\ outcome' = IF r.kind = "raise" THEN r ELSE Pending
                  /\ sent' = IF r.kind = "raise" THEN <<>> ELSE <<r.value>>
                  /\ passed' = IF "json_data" \in DOMAIN kwargs
                               THEN CreateJson(op, args, kwargs) ELSE NotPassed
    /\ received' = <<>>
    /\ UNCHANGED <<tool, env, client, pgVars>>

\* (mutant) an exception of client.post is returned as {"error": ...}
CreateReceive_ReturnsError ==
    /\ call.op = "create"
    /\ outcome = Pending
    /\ \E resp \in FacadeResponses :
          LET r == RequestReceive(resp)
          IN  /\ received' = <<resp>>
              /\ outcome' = IF r.kind = "raise"
                            THEN Returned(PyDict([error |-> PyStr(<<"e">>)])) ELSE r
    /\ UNCHANGED <<tool, passed, env, client, call, sent, pgVars>>

\* ... and from the network's answer: the facade returns what client.post
\* returns and lets what it raises through
CreateReceive ==
    /\ call.op = "create"
    /\ outcome = Pending
    /\ \E resp \in FacadeResponses :
          /\ received' = <<resp>>
          /\ outcome' = RequestReceive(resp)
    /\ UNCHANGED <<tool, passed, env, client, call, sent, pgVars>>

(***************************************************************************)
(* Dates: datetime.fromisoformat and _validate_iso_date of mcp_server.     *)
(***************************************************************************)
IsDigit(ch) == ch \in {"0", "1", "2", "3", "4", "5", "6", "7", "8", "9"}
DigitVal(ch) == CHOOSE d \in 0..9 : Digit(d) = ch
AllDigits(s) == \A i \in 1..Len(s) : IsDigit(s[i])

\* the number a string of digits denotes
RECURSIVE ParseInt(_)
ParseInt(s) ==
    IF s = <<>> THEN 0 ELSE 10 * ParseInt(SubSeq(s, 1, Len(s) - 1)) + DigitVal(s[Len(s)])

IsLeap(y) == (y % 4 = 0 /\ y % 100 # 0) \/ y % 400 = 0
DaysInMonth(y, m) ==
    IF m = 2 THEN (IF IsLeap(y) THEN 29 ELSE 28)
    ELSE IF m \in {4, 6, 9, 11} THEN 30 ELSE 31

\* a datetime object; aware is TRUE when it carries a UTC offset
DateTime(y, m, d, hh, mm, ss, aware) ==
    [t |-> "datetime", year |-> y, month |-> m, day |-> d,
     hour |-> hh, minute |-> mm, second |-> ss, aware |-> aware]

\* ValueError(msg): the message is a fixed text followed by the characters
\* of a value
ValueError(text, chars) ==
    [type |-> "ValueError", status_code |-> 0, message |-> PyStr(<<text>> \o chars)]

BadIso(s) == Raised(ValueError("Invalid isoformat string: ", Render(PyStr(s), TRUE)))

\* datetime(y, m, d, hh, mm, ss): the range checks of the constructor
MakeDateTime(y, m, d, hh, mm, ss, aware) ==
    IF y < 1 THEN Raised(ValueError("year is out of range", <<>>))
    ELSE IF m < 1 \/ m > 12 THEN Raised(ValueError("month must be in 1..12", <<>>))
    ELSE IF d < 1 \/ d > DaysInMonth(y, m)
         THEN Raised(ValueError("day is out of range for month", <<>>))
    ELSE IF hh > 23 THEN Raised(ValueError("hour must be in 0..23", <<>>))
    ELSE IF mm > 59 THEN Raised(ValueError("minute must be in 0..59", <<>>))
    ELSE IF ss > 59 THEN Raised(ValueError("second must be in 0..59", <<>>))
    ELSE Returned(DateTime(y, m, d, hh, mm, ss, aware))

\* the time part HH:MM:SS of an ISO string, with an optional offset Z or
\* +00:00 (the offsets the model's servers send): <<ok, hh, mm, ss, aware>>
IsoTime(s) ==
    LET shape  == /\ Len(s) >= 8
                  /\ AllDigits(SubSeq(s, 1, 2)) /\ s[3] = ":"
                  /\ AllDigits(SubSeq(s, 4, 5)) /\ s[6] = ":"
                  /\ AllDigits(SubSeq(s, 7, 8))
        offset == SubSeq(s, 9, Len(s))
    IN  IF shape /\ offset \in {<<>>, <<"Z">>, <<"+", "0", "0", ":", "0", "0">>}
        THEN <<TRUE, ParseInt(SubSeq(s, 1, 2)), ParseInt(SubSeq(s, 4, 5)),
               ParseInt(SubSeq(s, 7, 8)), offset # <<>>>>
        ELSE <<FALSE, 0, 0, 0, FALSE>>

\* datetime.fromisoformat(s) (Python 3.11): the calendar date YYYY-MM-DD or
\* YYYYMMDD, alone or followed by a separator character and a time; week
\* dates (YYYY-Www-D) are not modelled and no input of the model is one
FromIsoFormat(s) ==
    LET extended == Len(s) >= 10 /\ s[5] = "-"
        dlen     == IF extended THEN 10 ELSE 8
        dateOk   == IF extended
                    THEN /\ AllDigits(SubSeq(s, 1, 4)) /\ AllDigits(SubSeq(s, 6, 7))
                         /\ s[8] = "-" /\ AllDigits(SubSeq(s, 9, 10))
                    ELSE Len(s) >= 8 /\ AllDigits(SubSeq(s, 1, 8))
        y        == ParseInt(SubSeq(s, 1, 4))
        m        == IF extended THEN ParseInt(SubSeq(s, 6, 7)) ELSE ParseInt(SubSeq(s, 5, 6))
        d        == IF extended THEN ParseInt(SubSeq(s, 9, 10)) ELSE ParseInt(SubSeq(s, 7, 8))
        time     == IF Len(s) > dlen + 1 THEN IsoTime(SubSeq(s, dlen + 2, Len(s)))
                    ELSE <<Len(s) = dlen, 0, 0, 0, FALSE>>
    IN  IF ~dateOk \/ ~time[1] THEN BadIso(s)
        ELSE MakeDateTime(y, m, d, time[2], time[3], time[4], time[5])

S_invalidDate == "Invalid date format. Expected YYYY-MM-DD, got: "

\* (mutant) the YYYY-MM-DD shape is not checked before parsing
ValidateIsoDate_NoShape(date_str) ==
    LET r == FromIsoFormat(date_str)
    IN  IF r.kind = "raise" THEN Raised(ValueError(S_invalidDate, date_str)) ELSE r

\* _validate_iso_date(date_str) for a string: both ValueErrors of the try
\* block are re-raised as the ValueError of line 43
ValidateIsoDate(date_str) ==
    IF Len(date_str) # 10 \/ date_str[5] # "-" \/ date_str[8] # "-"
    THEN Raised(ValueError(S_invalidDate, date_str))
    ELSE LET r == FromIsoFormat(date_str)
         IN  IF r.kind = "raise" THEN Raised(ValueError(S_invalidDate, date_str)) ELSE r

D_0331 == <<"2", "0", "2", "4", "-", "0", "3", "-", "3", "1">>
D_0301 == <<"2", "0", "2", "4", "-", "0", "3", "-", "0", "1">>
D_0315 == <<"2", "0", "2", "4", "-", "0", "3", "-", "1", "5">>
D_leap == <<"2", "0", "2", "4", "-", "0", "2", "-", "2", "9">>
D_noleap == <<"2", "0", "2", "3", "-", "0", "2", "-", "2", "9">>
D_slash == <<"2", "0", "2", "4", "/", "0", "3", "/", "3", "1">>
D_short == <<"2", "0", "2", "4", "-", "3", "-", "3", "1">>
D_year2 == <<"2", "4", "-", "0", "3", "-", "3", "1">>
D_noday == <<"2", "0", "2", "4", "-", "0", "3">>
D_month13 == <<"2", "0", "2", "4", "-", "1", "3", "-", "3", "1">>
D_day32 == <<"2", "0", "2", "4", "-", "0", "3", "-", "3", "2">>
D_apr31 == <<"2", "0", "2", "4", "-", "0", "4", "-", "3", "1">>
D_month0 == <<"2", "0", "2", "4", "-", "0", "0", "-", "1", "0">>
D_day0 == <<"2", "0", "2", "4", "-", "0", "3", "-", "0", "0">>
D_year0 == <<"0", "0", "0", "0", "-", "0", "1", "-", "0", "1">>
D_text == <<"i", "n", "v", "a", "l", "i", "d">>
D_text10 == <<"i", "n", "v", "a", "l", "i", "d", "_", "d", "a">>
D_letter == <<"2", "0", "2", "4", "-", "0", "3", "-", "3", "a">>
D_basic == <<"2", "0", "2", "4", "0", "3", "3", "1">>
D_time == <<"2", "0", "2", "4", "-", "0", "3", "-", "3", "1", "T", "1", "0", ":", "0", "0", ":", "0", "0">>

DateStrings ==
    {D_0331, D_0301, D_0315, D_leap, D_noleap, D_slash,
     D_short, D_year2, D_noday, D_month13, D_day32, D_apr31, D_month0,
     D_day0, D_year0, D_text, D_text10, D_letter, D_basic, D_time}

\* _validate_iso_date(date_str), called on its own
ValidateDate ==
    /\ Idle
    /\ \E date_str \in DateStrings :
          /\ call' = [op |-> "_validate_iso_date", date_str |-> date_str]
          /\ outcome' = ValidateIsoDate(date_str)
    /\ sent' = <<>>
    /\ received' = <<>>
    /\ UNCHANGED <<tool, passed, env, client, pgVars>>

(***************************************************************************)
(* The facades' list: list(self.client.paginate(endpoint, ...)).  list()   *)
(* is the generator's consumer: it asks for the next item until the        *)
(* generator ends or raises.                                               *)
(***************************************************************************)
S_due_at == <<"d", "u", "e", "_", "a", "t">>
S_upcoming == <<"u", "p", "c", "o", "m", "i", "n", "g">>
S_available == <<"a", "v", "a", "i", "l", "a", "b", "l", "e">>

\* Assignments.list lines 35-50: the query parameters
AssignmentsListParams(include, page, per_page, order_by, bucket) ==
    LET keys == (IF Truthy(include) THEN {"include[]"} ELSE {})
                \cup (IF page # None THEN {"page"} ELSE {})
                \cup (IF per_page # None THEN {"per_page"} ELSE {})
                \cup (IF Truthy(order_by) THEN {"order_by"} ELSE {})
                \cup (IF Truthy(bucket) THEN {"bucket"} ELSE {})
    IN  PyDict([k \in keys |->
                  CASE k = "include[]" -> include
                    [] k = "page"      -> page
                    [] k = "per_page"  -> per_page
                    [] k = "order_by"  -> order_by
                    [] k = "bucket"    -> bucket])

\* Assignments.list lines 34 and 53: the endpoint
AssignmentsListEndpoint(course_id) ==
    S_courses \o S_slash \o Str(AssignmentsGetItemId(course_id)) \o S_slash \o S_assignments

\* the call record of client.assignments.list(course_id, **args)
AssignmentsListCall(course_id, args) ==
    [op |-> "list", facade |-> "Assignments", course_id |-> course_id, args |-> args,
     endpoint |-> AssignmentsListEndpoint(course_id)]

\* the keyword arguments Assignments.list hands to paginate
AssignmentsListKwargs(args) ==
    [params |-> AssignmentsListParams(args.include, args.page, args.per_page,
                                      args.order_by, args.bucket)]

\* ','.join(items) for a list of strings, or the string itself
JoinOrStr(v) ==
    IF v.t = "str" THEN v
    ELSE PyStr(JoinChars([i \in 1..Len(v.items) |-> v.items[i].s], <<",">>))

\* Courses.list lines 20-31: kwargs with params['state'] set
CoursesListKwargs(state, kwargs) ==
    LET params == IF "params" \in DOMAIN kwargs THEN kwargs.params ELSE EmptyDict
        filled == IF Truthy(state)
                  THEN PyDict([k \in DOMAIN params.d \cup {"state"} |->
                                 IF k = "state" THEN JoinOrStr(state) ELSE params.d[k]])
                  ELSE params
    IN  [k \in DOMAIN kwargs \cup {"params"} |-> IF k = "params" THEN filled ELSE kwargs[k]]

\* the call record of client.courses.list(state=state, **kwargs)
CoursesListCall(state, kwargs) ==
    [op |-> "list", facade |-> "Courses", state |-> state, kwargs |-> kwargs,
     endpoint |-> S_courses]

\* list(self.client.paginate(endpoint, **kwargs)) begins: the generator is
\* created and list() asks for its first item
StartList(c, kwargs) ==
    /\ call' = c
    /\ pgKwargs' = kwargs
    /\ pgEndpoint' = c.endpoint
    /\ pgPc' = "start"
    /\ pgResponse' = None
    /\ pgIdx' = 0
    /\ yielded' = <<>>
    /\ want' = TRUE
    /\ server' = <<>>
    /\ outcome' = NoOutcome
    /\ sent' = <<>>
    /\ received' = <<>>

NoListArgs ==
    [include |-> None, page |-> None, per_page |-> None, order_by |-> None, bucket |-> None]
ListArgs ==
    {NoListArgs,
     [include |-> PyList(<<PyStr(S_due_at)>>), page |-> None, per_page |-> None,
      order_by |-> None, bucket |-> None],
     [include |-> PyList(<<PyStr(S_due_at)>>), page |-> PyInt(1), per_page |-> PyInt(1),
      order_by |-> PyStr(S_due_at), bucket |-> PyStr(S_upcoming)],
     [include |-> None, page |-> PyInt(2), per_page |-> PyInt(10),
      order_by |-> None, bucket |-> None]}

PageKwargs == {<<>>, [page |-> PyInt(1), per_page |-> PyInt(10)]}
\* what a caller of Courses.list passes besides the filters
CoursesKwargs == PageKwargs \cup {[params |-> PyDict([x |-> PyInt(1)])]}

\* client.assignments.list(course_id, ...)
AssignmentsList ==
    /\ client # NoClient
    /\ Idle
    /\ \E course_id \in {PyStr(S_42), PyInt(7)}, args \in ListArgs :
          StartList(AssignmentsListCall(course_id, args), AssignmentsListKwargs(args))
    /\ UNCHANGED <<tool, passed, env, client>>

\* client.courses.list(state=['available'], ...)
CoursesList ==
    /\ client # NoClient
    /\ Idle
    /\ \E state \in {None, PyList(<<PyStr(S_available)>>)}, kwargs \in CoursesKwargs :
          /\ StartList(CoursesListCall(state, kwargs), CoursesListKwargs(state, kwargs))
          /\ passed' = IF "params" \in DOMAIN kwargs
                        THEN CoursesListKwargs(state, kwargs).params ELSE NotPassed
    /\ UNCHANGED <<tool, env, client>>

(***************************************************************************)
(* mcp_server: the module's client and the tools that return one object.   *)
(***************************************************************************)
\* the module's client exists: CanvasClient(api_token=os.getenv("CANVAS_TOKEN"),
\* api_url=os.getenv("CANVAS_HOST")) succeeded when the module was loaded
ToolsClient ==
    /\ client # NoClient
    /\ ClientInit(env.CANVAS_TOKEN, env.CANVAS_HOST) = Returned(client)

\* str(e): the text CanvasAPIError and the ValueErrors of mcp_server are
\* built with; for an exception of the interpreter or of a library, a text
\* naming its type
ExcText(e) ==
    IF e.type = "CanvasAPIError"
    THEN <<"Canvas API Error (">> \o IntChars(e.status_code) \o <<"): ">> \o Str(e.message)
    ELSE IF e.message # None THEN Str(e.message)
    ELSE <<"(message of " \o e.type \o ")">>

\* {"error": str(e)}
ErrorObject(e) == PyDict([error |-> PyStr(ExcText(e))])

\* a tool's frame: its name and arguments, where it stands, its locals and,
\* once it is done, how it ended
Tool(name, args) ==
    [name |-> name, args |-> args, pc |-> "start", course |-> None, courses |-> <<>>,
     idx |-> 0, acc |-> <<>>, now |-> None, calls |-> 0, result |-> NoOutcome]

ToolDone(result) == [tool EXCEPT !.pc = "done", !.result = result]

\* the client call the tool waits for has returned or raised
CallEnded == outcome.kind \in {"return", "raise"}

\* client.<facade>.get(item), up to the network call
StartGet(facade, item) ==
    LET endpoint == GetEndpoint(facade, GetItemId(facade, item), None)
        r        == RequestSend("GET", endpoint, GetKwargs(facade))
    IN  /\ call' = [op |-> "facade_get", facade |-> facade, item1 |-> item,
                    item2 |-> None, endpoint |-> endpoint]
        /\ outcome' = IF r.kind = "raise" THEN r ELSE Pending
        /\ sent' = IF r.kind = "raise" THEN <<>> ELSE <<r.value>>
        /\ received' = <<>>
        /\ UNCHANGED pgVars

\* isinstance(e, ValueError): UnicodeDecodeError and the JSONDecodeError of
\* response.json() are subclasses of ValueError
IsValueError(e) == e.type \in {"ValueError", "UnicodeDecodeError", "JSONDecodeError"}

\* (mutant) a ValueError is re-raised, as the list-returning tools do
SingleResult_ReraiseValueError(o) ==
    IF o.kind = "raise" /\ ~IsValueError(o.exc) THEN Returned(ErrorObject(o.exc)) ELSE o

\* try: return <client call> / except Exception as e: return {"error": str(e)}
SingleResult(o) == IF o.kind = "raise" THEN Returned(ErrorObject(o.exc)) ELSE o

S_submission == <<"s", "u", "b", "m", "i", "s", "s", "i", "o", "n">>
V_include == PyList(<<PyStr(S_due_at), PyStr(S_submission)>>)
ToolCourseIds == {PyStr(S_42)}

\* get_course_info(course_id), up to the network call
GetCourseInfoCall ==
    /\ ToolsClient
    /\ Idle
    /\ \E course_id \in ToolCourseIds :
          /\ tool' = [Tool("get_course_info", [course_id |-> course_id])
                        EXCEPT !.pc = "get", !.calls = 1]
          /\ StartGet("Courses", course_id)
    /\ UNCHANGED <<passed, env, client>>

GetCourseInfoReturn ==
    /\ tool.name = "get_course_info"
    /\ tool.pc = "get"
    /\ CallEnded
    /\ tool' = ToolDone(SingleResult(outcome))
    /\ UNCHANGED <<passed, env, client, call, outcome, sent, received, pgVars>>

\* list_active_courses(page, per_page)
ListActiveCoursesCall ==
    /\ ToolsClient
    /\ Idle
    /\ \E kwargs \in PageKwargs \ {<<>>} :
          LET state == PyList(<<PyStr(S_available)>>)
          IN  /\ tool' = [Tool("list_active_courses", kwargs)
                            EXCEPT !.pc = "list", !.calls = 1]
              /\ StartList(CoursesListCall(state, kwargs), CoursesListKwargs(state, kwargs))
    /\ UNCHANGED <<passed, env, client>>

ListActiveCoursesReturn ==
    /\ tool.name = "list_active_courses"
    /\ tool.pc = "list"
    /\ CallEnded
    /\ tool' = ToolDone(SingleResult(outcome))
    /\ UNCHANGED <<passed, env, client, call, outcome, sent, received, pgVars>>

\* get_course_assignments(course_id, page, per_page, order_by, bucket)
CourseAssignmentsArgs ==
    {[include |-> V_include, page |-> PyInt(1), per_page |-> PyInt(10),
      order_by |-> PyStr(S_due_at), bucket |-> b] : b \in {None, PyStr(S_upcoming)}}

GetCourseAssignmentsCall ==
    /\ ToolsClient
    /\ Idle
    /\ \E course_id \in ToolCourseIds, args \in CourseAssignmentsArgs :
          /\ tool' = [Tool("get_course_assignments", [course_id |-> course_id, list |-> args])
                        EXCEPT !.pc = "list", !.calls = 1]
          /\ StartList(AssignmentsListCall(course_id, args), AssignmentsListKwargs(args))
    /\ UNCHANGED <<passed, env, client>>

GetCourseAssignmentsReturn ==
    /\ tool.name = "get_course_assignments"
    /\ tool.pc = "list"
    /\ CallEnded
    /\ tool' = ToolDone(SingleResult(outcome))
    /\ UNCHANGED <<passed, env, client, call, outcome, sent, received, pgVars>>

\* d[key] = value on a dict
SetItem(d, key, value) ==
    PyDict([k \in DOMAIN d.d \cup {key} |-> IF k = key THEN value ELSE d.d[k]])

S_unknownCourse == <<"Unknown Course">>
V_noUpcoming == PyDict([message |-> PyStr(<<"No upcoming assignments">>)])

\* assignment['course_name'] = course.get('name', 'Unknown Course'): the
\* right-hand side is evaluated first
TagCourseName(assignment, course) ==
    IF course.t # "dict" THEN Raised(Exc("AttributeError"))
    ELSE IF assignment.t # "dict" THEN Raised(Exc("TypeError"))
    ELSE Returned(SetItem(assignment, "course_name",
                          DictGet(course, "name", PyStr(S_unknownCourse))))

\* (mutant) the last listed assignment is taken
NextAssignment_Last(course, result) ==
    LET assignments == DictGet(result, "assignments", PyList(<<>>))
    IN  IF ~Truthy(assignments) THEN Returned(V_noUpcoming)
        ELSE TagCourseName(assignments.items[Len(assignments.items)], course)

\* get_next_assignment lines 94-105, from the result of assignments.list
NextAssignment(course, result) ==
    LET assignments == DictGet(result, "assignments", PyList(<<>>))
    IN  IF ~Truthy(assignments) THEN Returned(V_noUpcoming)
        ELSE TagCourseName(assignments.items[1], course)

NextAssignmentArgs ==
    [include |-> V_include, page |-> PyInt(1), per_page |-> PyInt(1),
     order_by |-> PyStr(S_due_at), bucket |-> PyStr(S_upcoming)]

\* get_next_assignment(course_id), up to the network call of courses.get
GetNextAssignmentCall ==
    /\ ToolsClient
    /\ Idle
    /\ \E course_id \in ToolCourseIds :
          /\ tool' = [Tool("get_next_assignment", [course_id |-> course_id])
                        EXCEPT !.pc = "get", !.calls = 1]
          /\ StartGet("Courses", course_id)
    /\ UNCHANGED <<passed, env, client>>

\* courses.get returned or raised; on a course, assignments.list begins
GetNextAssignmentCourse ==
    /\ tool.name = "get_next_assignment"
    /\ tool.pc = "get"
    /\ CallEnded
    /\ IF outcome.kind = "raise"
       THEN /\ tool' = ToolDone(SingleResult(outcome))
            /\ UNCHANGED <<call, outcome, sent, received, pgVars>>
       ELSE /\ tool' = [tool EXCEPT !.pc = "list", !.course = outcome.value, !.calls = 2]
            /\ StartList(AssignmentsListCall(tool.args.course_id, NextAssignmentArgs),
                         AssignmentsListKwargs(NextAssignmentArgs))
    /\ UNCHANGED <<passed, env, client>>

GetNextAssignmentReturn ==
    /\ tool.name = "get_next_assignment"
    /\ tool.pc = "list"
    /\ CallEnded
    /\ tool' = ToolDone(SingleResult(IF outcome.kind = "raise" THEN outcome
                                     ELSE NextAssignment(tool.course, outcome.value)))
    /\ UNCHANGED <<passed, env, client, call, outcome, sent, received, pgVars>>

(***************************************************************************)
(* mcp_server: the tools that return a list.                               *)
(***************************************************************************)
\* except Exception as e: a ValueError is re-raised, any other exception
\* becomes [{"error": str(e)}]
ListResult(o) ==
    IF o.kind # "raise" THEN o
    ELSE IF IsValueError(o.exc) THEN o
    ELSE Returned(PyList(<<ErrorObject(o.exc)>>))

\* course['id']
CourseId(course) ==
    IF course.t # "dict" THEN Raised(Exc("TypeError"))
    ELSE IF "id" \notin DOMAIN course.d THEN Raised(Exc("KeyError"))
    ELSE Returned(course.d.id)

\* s.replace('Z', '+00:00')
RECURSIVE ReplaceZ(_)
ReplaceZ(s) ==
    IF s = <<>> THEN <<>>
    ELSE (IF Head(s) = "Z" THEN <<"+", "0", "0", ":", "0", "0">> ELSE <<Head(s)>>)
         \o ReplaceZ(Tail(s))

\* dt + timedelta(days=n), for n of at most one month
AddDays(dt, n) ==
    LET dim == DaysInMonth(dt.year, dt.month)
    IN  IF dt.day + n <= dim THEN [dt EXCEPT !.day = dt.day + n]
        ELSE IF dt.month < 12
             THEN [dt EXCEPT !.day = dt.day + n - dim, !.month = dt.month + 1]
             ELSE [dt EXCEPT !.day = dt.day + n - dim, !.month = 1, !.year = dt.year + 1]

\* a < b for the fields of two datetimes, in order
RECURSIVE SeqLess(_, _)
SeqLess(a, b) ==
    IF a = <<>> \/ b = <<>> THEN a = <<>> /\ b # <<>>
    ELSE IF Head(a) # Head(b) THEN Head(a) < Head(b)
    ELSE SeqLess(Tail(a), Tail(b))

Fields(dt) == <<dt.year, dt.month, dt.day, dt.hour, dt.minute, dt.second>>

\* a <= b and a > b on datetimes: "true", "false", or "TypeError" when one is
\* naive and the other aware (the aware ones of the model are all UTC)
DtLessEq(a, b) ==
    IF a.aware # b.aware THEN "TypeError"
    ELSE IF ~SeqLess(Fields(b), Fields(a)) THEN "true" ELSE "false"
DtGreater(a, b) ==
    IF a.aware # b.aware THEN "TypeError"
    ELSE IF SeqLess(Fields(b), Fields(a)) THEN "true" ELSE "false"

\* the code point order of the characters of a due date
Rank(ch) ==
    CASE ch = "+" -> 43 [] ch = "-" -> 45 [] IsDigit(ch) -> 48 + DigitVal(ch)
      [] ch = ":" -> 58 [] ch = "T" -> 84 [] ch = "Z" -> 90

\* sorted(assignments, key=lambda x: x.get('due_at', '')): a stable sort on
\* the due date strings
DueKey(x) == [i \in 1..Len(x.d.due_at.s) |-> Rank(x.d.due_at.s[i])]
RECURSIVE Insert(_, _)
Insert(sorted, x) ==
    IF sorted = <<>> THEN <<x>>
    ELSE IF SeqLess(DueKey(x), DueKey(sorted[Len(sorted)]))
         THEN Append(Insert(SubSeq(sorted, 1, Len(sorted) - 1), x), sorted[Len(sorted)])
         ELSE Append(sorted, x)
RECURSIVE Sorted(_)
Sorted(items) ==
    IF items = <<>> THEN <<>>
    ELSE Insert(Sorted(SubSeq(items, 1, Len(items) - 1)), items[Len(items)])

\* get_assignments_due_this_week lines 134-139 for the assignments from
\* index i on: the list `assignments` after the loop, or the raise
RECURSIVE FilterDue(_, _, _, _, _)
FilterDue(items, i, course, week_end, acc) ==
    IF i > Len(items) THEN Returned(acc)
    ELSE IF items[i].t # "dict" THEN Raised(Exc("AttributeError"))
    ELSE LET due == DictGet(items[i], "due_at", None)
         IN  IF ~Truthy(due) THEN FilterDue(items, i + 1, course, week_end, acc)
             ELSE IF due.t # "str" THEN Raised(Exc("AttributeError"))
             ELSE LET due_at == FromIsoFormat(ReplaceZ(due.s))
                      le     == DtLessEq(due_at.value, week_end)
                      tagged == TagCourseName(items[i], course)
                  IN  IF due_at.kind = "raise" THEN due_at
                      ELSE IF le = "TypeError" THEN Raised(Exc("TypeError"))
                      ELSE IF le = "false"
                           THEN FilterDue(items, i + 1, course, week_end, acc)
                      ELSE IF tagged.kind = "raise" THEN tagged
                      ELSE FilterDue(items, i + 1, course, week_end,
                                     Append(acc, tagged.value))

\* the readings of datetime.now(timezone.utc)
Clock ==
    {DateTime(2024, 3, 20, 12, 0, 0, TRUE), DateTime(2024, 3, 25, 12, 0, 0, TRUE),
     DateTime(2024, 4, 5, 12, 0, 0, TRUE)}

DueArgs ==
    [include |-> V_include, page |-> None, per_page |-> None, order_by |-> None,
     bucket |-> PyStr(S_upcoming)]

\* the `for course in courses` loop of get_assignments_due_this_week, from
\* frame t on: the call of assignments.list for the next course, or the
\* return of the sorted list
DueNextCourse(t) ==
    IF t.idx > Len(t.courses)
    THEN /\ tool' = [t EXCEPT !.pc = "done", !.result = Returned(PyList(Sorted(t.acc)))]
         /\ UNCHANGED <<call, outcome, sent, received, pgVars>>
    ELSE LET id == CourseId(t.courses[t.idx])
         IN  IF id.kind = "raise"
             THEN /\ tool' = [t EXCEPT !.pc = "done", !.result = ListResult(id)]
                  /\ UNCHANGED <<call, outcome, sent, received, pgVars>>
             ELSE /\ tool' = [t EXCEPT !.pc = "list", !.calls = t.calls + 1]
                  /\ StartList(AssignmentsListCall(id.value, DueArgs),
                               AssignmentsListKwargs(DueArgs))

\* the courses a tool works on: [client.courses.get(course_id)] if a course
\* is given, else client.courses.list(state=['available'])
StartCourses(course_id) ==
    IF Truthy(course_id) THEN StartGet("Courses", course_id)
    ELSE LET state == PyList(<<PyStr(S_available)>>)
         IN  StartList(CoursesListCall(state, <<>>), CoursesListKwargs(state, <<>>))

\* the list `courses` from what that call returned
CoursesOf(course_id, value) == IF Truthy(course_id) THEN <<value>> ELSE value.items

OptionalCourseIds == {None, PyStr(S_42)}

\* get_assignments_due_this_week(course_id), up to the first network call
DueThisWeekCall ==
    /\ ToolsClient
    /\ Idle
    /\ \E course_id \in OptionalCourseIds :
          /\ tool' = [Tool("get_assignments_due_this_week", [course_id |-> course_id])
                        EXCEPT !.pc = "courses", !.calls = 1]
          /\ StartCourses(course_id)
    /\ UNCHANGED <<passed, env, client>>

\* the courses are there (or the call raised): the loop begins
DueThisWeekCourses ==
    /\ tool.name = "get_assignments_due_this_week"
    /\ tool.pc = "courses"
    /\ CallEnded
    /\ IF outcome.kind = "raise"
       THEN /\ tool' = ToolDone(ListResult(outcome))
            /\ UNCHANGED <<call, outcome, sent, received, pgVars>>
       ELSE DueNextCourse([tool EXCEPT !.courses = CoursesOf(tool.args.course_id,
                                                             outcome.value),
                                       !.idx = 1])
    /\ UNCHANGED <<passed, env, client>>

\* assignments.list returned (or raised) for the current course: its
\* assignments are filtered against the clock and the loop goes on
DueThisWeekAssignments ==
    /\ tool.name = "get_assignments_due_this_week"
    /\ tool.pc = "list"
    /\ CallEnded
    /\ IF outcome.kind = "raise"
       THEN /\ tool' = ToolDone(ListResult(outcome))
            /\ UNCHANGED <<call, outcome, sent, received, pgVars>>
       ELSE \E now \in Clock :
               /\ tool.now # None => ~SeqLess(Fields(now), Fields(tool.now))
               /\ LET items == DictGet(outcome.value, "assignments", PyList(<<>>)).items
                      r     == FilterDue(items, 1, tool.courses[tool.idx],
                                         AddDays(now, 7), tool.acc)
                  IN  IF r.kind = "raise"
                      THEN /\ tool' = [tool EXCEPT !.pc = "done", !.now = now,
                                                   !.result = ListResult(r)]
                           /\ UNCHANGED <<call, outcome, sent, received, pgVars>>
                      ELSE DueNextCourse([tool EXCEPT !.acc = r.value, !.now = now,
                                                      !.idx = tool.idx + 1])
    /\ UNCHANGED <<passed, env, client>>

\* f"Start date ({start_date}) must be before end date ({end_date})"
StartAfterEnd(start_date, end_date) ==
    [type |-> "ValueError", status_code |-> 0,
     message |-> PyStr(<<"Start date (">> \o start_date
                       \o <<") must be before end date (">> \o end_date \o <<")">>)]

\* (mutant) the order of the two dates is not checked
RangeDates_NoOrderCheck(start_date, end_date) ==
    LET start == ValidateIsoDate(start_date)
        end   == ValidateIsoDate(end_date)
    IN  IF start.kind = "raise" THEN start
        ELSE IF end.kind = "raise" THEN end
        ELSE Returned(<<start.value, end.value>>)

\* get_assignments_by_date_range lines 200-206: the two parsed dates, or the
\* ValueError of the validation
RangeDates(start_date, end_date) ==
    LET start == ValidateIsoDate(start_date)
        end   == ValidateIsoDate(end_date)
    IN  IF start.kind = "raise" THEN start
        ELSE IF end.kind = "raise" THEN end
        ELSE IF DtGreater(start.value, end.value) = "true"
             THEN Raised(StartAfterEnd(start_date, end_date))
        ELSE Returned(<<start.value, end.value>>)

\* the attribute lookup client.assignments.get_assignments_by_date_range:
\* the Assignments facade defines no such method
NoSuchMethod ==
    [type |-> "AttributeError", status_code |-> 0,
     message |-> PyStr(<<"'Assignments' object has no attribute ",
                         "'get_assignments_by_date_range'">>)]

\* lines 214-228, from `courses` on: the first turn of the loop raises on
\* the lookup of the method, before course['id'] is evaluated
RangeLoop(courses) ==
    IF courses = <<>> THEN Returned(PyList(Sorted(<<>>))) ELSE Raised(NoSuchMethod)

RangeDateArgs == {D_0301, D_0315, D_0331, D_slash, D_day32}

\* get_assignments_by_date_range(start_date, end_date, course_id), up to the
\* first network call, or to the raise of the validation
DateRangeCall ==
    /\ ToolsClient
    /\ Idle
    /\ \E start_date \in RangeDateArgs, end_date \in RangeDateArgs,
          course_id \in OptionalCourseIds :
          LET t == Tool("get_assignments_by_date_range",
                        [start_date |-> start_date, end_date |-> end_date,
                         course_id |-> course_id])
              v == RangeDates(start_date, end_date)
          IN  IF v.kind = "raise"
              THEN /\ tool' = [t EXCEPT !.pc = "done", !.result = ListResult(v)]
                   /\ UNCHANGED <<call, outcome, sent, received, pgVars>>
              ELSE /\ tool' = [t EXCEPT !.pc = "courses", !.calls = 1]
                   /\ StartCourses(course_id)
    /\ UNCHANGED <<passed, env, client>>

\* the courses are there (or the call raised): the loop over them
DateRangeCourses ==
    /\ tool.name = "get_assignments_by_date_range"
    /\ tool.pc = "courses"
    /\ CallEnded
    /\ LET courses == CoursesOf(tool.args.course_id, outcome.value)
       IN  tool' = IF outcome.kind = "raise" THEN ToolDone(ListResult(outcome))
                   ELSE [tool EXCEPT !.pc = "done", !.courses = courses,
                                     !.result = ListResult(RangeLoop(courses))]
    /\ UNCHANGED <<passed, env, client, call, outcome, sent, received, pgVars>>

Init ==
    /\ env \in [CANVAS_TOKEN : EnvTokens, CANVAS_HOST : EnvHosts]
    /\ client = NoClient
    /\ call = NoCall
    /\ outcome = NoOutcome
    /\ sent = <<>>
    /\ received = <<>>
    /\ server = <<>>
    /\ pgPc = "idle"
    /\ pgEndpoint = <<>>
    /\ pgKwargs = <<>>
    /\ pgResponse = None
    /\ pgIdx = 0
    /\ yielded = <<>>
    /\ want = FALSE
    /\ tool = NoTool
    /\ passed = NotPassed

Next ==
    \/ Construct
    \/ RestSend
    \/ RestReceive
    \/ GraphQLSend
    \/ GraphQLReceive
    \/ PgCall
    \/ PgAsk
    \/ PgSend
    \/ PgReceive
    \/ PgYieldItem
    \/ PgLinks
    \/ PgYieldObject
    \/ PgBreak
    \/ FacadeGetSend
    \/ FacadeGetReceive
    \/ UploadSend
    \/ UploadInitReceive
    \/ UploadReceive
    \/ CreateSend
    \/ CreateReceive
    \/ ValidateDate
    \/ AssignmentsList
    \/ CoursesList
    \/ GetCourseInfoCall
    \/ GetCourseInfoReturn
    \/ ListActiveCoursesCall
    \/ ListActiveCoursesReturn
    \/ GetCourseAssignmentsCall
    \/ GetCourseAssignmentsReturn
    \/ GetNextAssignmentCall
    \/ GetNextAssignmentCourse
    \/ GetNextAssignmentReturn
    \/ DueThisWeekCall
    \/ DueThisWeekCourses
    \/ DueThisWeekAssignments
    \/ DateRangeCall
    \/ DateRangeCourses
    \/ Forget

Spec == Init /\ [][Next]_vars

\* a step of the generator or of its consumer
PgStep ==
    PgAsk \/ PgSend \/ PgReceive \/ PgYieldItem \/ PgLinks \/ PgYieldObject \/ PgBreak

\* pagination on its own, with a client built from explicit arguments: the
\* generator and the list operations of the facades
LiveInit == Init /\ env = [CANVAS_TOKEN |-> None, CANVAS_HOST |-> None]

LiveNext ==
    \/ Construct
    \/ PgCall
    \/ PgAsk
    \/ PgSend
    \/ PgReceive
    \/ PgYieldItem
    \/ PgLinks
    \/ PgYieldObject
    \/ PgBreak
    \/ AssignmentsList
    \/ CoursesList
    \/ Forget

\* the generator is consumed to its end: the consumer keeps calling next(),
\* the interpreter runs the generator's code, and every GET is answered
LiveSpec == LiveInit /\ [][LiveNext]_vars /\ WF_vars(PgStep)

(***************************************************************************)
(* Pagination                                                              *)
(***************************************************************************)
\* every page is an array, every page but the last advertises the page after
\* it, and the last page advertises nothing
IsChain(c) ==
    /\ c # <<>>
    /\ \A k \in 1..Len(c) :
          /\ c[k].kind = "array"
          /\ c[k].next = IF k < Len(c) THEN k + 1 ELSE 0

RECURSIVE AllItems(_, _)
AllItems(c, k) ==
    IF k > Len(c) THEN <<>> ELSE PageItems(c[k].size, k) \o AllItems(c, k + 1)

PaginateDone == call.op = "paginate" /\ pgPc = "done"

\* C1: when paginate has been consumed to its end against a chain of n pages
\* in which every page but the last advertises `next`, the items yielded are
\* the concatenation of all n pages' items in page order and exactly n GET
\* requests were issued.
C1_AllPagesInOrder ==
    (PaginateDone /\ IsChain(server)) =>
        /\ yielded = AllItems(server, 1)
        /\ Len(sent) = Len(server)
        /\ \A i \in 1..Len(sent) : sent[i].method = "GET"

FirstResponseIsObject ==
    /\ call.op = "paginate"
    /\ received # <<>>
    /\ received[1].delivered
    /\ ~RaisesForStatus(received[1].status_code)
    /\ received[1].content.json # NotJson
    /\ received[1].content.json.t = "dict"

\* C2: when the first GET of paginate returns a single JSON object that is
\* not an array, the generator yields exactly that object, then ends without
\* raising, and one request is issued in all.
C2_SingleObject ==
    FirstResponseIsObject =>
        /\ Len(sent) = 1
        /\ pgPc \in {"object", "break", "done"}
        /\ yielded = IF pgPc = "object" THEN <<>> ELSE <<received[1].content.json>>
        /\ pgPc = "done" => outcome = Returned(None)

C2_Witness ==
    /\ FirstResponseIsObject
    /\ pgPc = "done"
    /\ yielded = <<V_object>>
    /\ Len(sent) = 1

(***************************************************************************)
(* _request                                                                *)
(***************************************************************************)
\* the call is a finished _request that the network answered
RequestAnswered ==
    /\ call.op = "request"
    /\ received # <<>>
    /\ received[1].delivered
    /\ outcome # Pending

\* the body is a JSON object that carries the key `errors`
HasErrorsField(body) ==
    /\ body.json # NotJson
    /\ body.json.t = "dict"
    /\ "errors" \in DOMAIN body.json.d

IsError(status) == status \in 400..599
IsSuccess(status) == status \in 200..299

\* C3: for a 4xx or 5xx response _request never returns a value: it raises
\* CanvasAPIError with status_code the HTTP status, and with message the
\* body's `errors` field whenever the body is JSON and contains that key.
C3_ErrorRaisesCanvasAPIError ==
    (RequestAnswered /\ IsError(received[1].status_code)) =>
        /\ outcome.kind = "raise"
        /\ outcome.exc.type = "CanvasAPIError"
        /\ outcome.exc.status_code = received[1].status_code
        /\ HasErrorsField(received[1].content) =>
              outcome.exc.message = received[1].content.json.d.errors

\* C4: the message of the CanvasAPIError raised for a failed REST call is
\* the `errors` field if the body is JSON carrying that key; otherwise the
\* raw body decoded as text whenever the body is non-empty (a JSON body
\* without `errors` included); the transport-level text only without a body.
C4_MessageOrder ==
    (/\ RequestAnswered
     /\ outcome.kind = "raise"
     /\ outcome.exc.type = "CanvasAPIError") =>
        LET body == received[1].content
        IN  outcome.exc.message =
               IF HasErrorsField(body) THEN body.json.d.errors
               ELSE IF body.raw # <<>> THEN PyStr(body.raw)
               ELSE HTTPErrorText(received[1].status_code)

\* C5: for a 2xx response _request returns the decoded JSON value itself
\* when the body holds JSON, and returns None, without raising, when the
\* body is empty or whitespace only.
C5_SuccessValue ==
    (RequestAnswered /\ IsSuccess(received[1].status_code)) =>
        LET body == received[1].content
        IN  /\ (\A i \in 1..Len(body.raw) : IsSpace(body.raw[i])) =>
                  outcome = Returned(None)
            /\ body.json # NotJson => outcome = Returned(body.json)

C5_Witness ==
    /\ RequestAnswered
    /\ received[1].status_code = 200
    /\ received[1].content = B_blank
    /\ outcome = Returned(None)

(***************************************************************************)
(* GraphQL                                                                 *)
(***************************************************************************)
QueryAnswered ==
    /\ call.op = "query"
    /\ received # <<>>
    /\ received[1].delivered
    /\ outcome # Pending

IsObject(body) == body.json # NotJson /\ body.json.t = "dict"

\* C6: query raises CanvasAPIError when an HTTP-200 response body carries an
\* `errors` list, and returns the value of `data` when the body carries
\* `data` and no `errors`.
C6_ErrorsRaiseDataReturns ==
    (QueryAnswered /\ received[1].status_code = 200 /\ IsObject(received[1].content)) =>
        LET d == received[1].content.json.d
        IN  /\ ("errors" \in DOMAIN d /\ d.errors.t = "list") =>
                  /\ outcome.kind = "raise"
                  /\ outcome.exc.type = "CanvasAPIError"
            /\ ("data" \in DOMAIN d /\ "errors" \notin DOMAIN d) =>
                  outcome = Returned(d.data)

C6_Witness ==
    /\ QueryAnswered
    /\ received[1].status_code = 200
    /\ received[1].content = JsonBody(V_data)
    /\ outcome = Returned(PyDict([x |-> PyInt(1)]))

\* C7: query raises CanvasAPIError only when the transport call fails or the
\* decoded body contains a non-empty `errors` array; an HTTP-200 body with
\* `data` and an empty `errors` array returns `data`.
C7_OnlyNonEmptyErrors ==
    QueryAnswered =>
        LET body == received[1].content
        IN  /\ (outcome.kind = "raise" /\ outcome.exc.type = "CanvasAPIError") =>
                  \/ RaisesForStatus(received[1].status_code)
                  \/ /\ HasErrorsField(body)
                     /\ body.json.d.errors.t = "list"
                     /\ body.json.d.errors.items # <<>>
            /\ (received[1].status_code = 200 /\ body = JsonBody(V_dataEmptyErrors)) =>
                  outcome = Returned(V_dataEmptyErrors.d.data)

(***************************************************************************)
(* Construction and the client's state                                     *)
(***************************************************************************)
\* a value given neither as argument nor by the environment
Missing(arg, fromEnv) ==
    /\ arg \in {None, PyStr(<<>>)}
    /\ fromEnv \in {None, PyStr(<<>>)}

\* C8: constructing CanvasClient with the token or the host missing after
\* the fallback to the environment raises the configuration error
\* (ValueError) and produces no client; a client never holds an empty token
\* or an empty host.
C8_MissingCredentials ==
    /\ (/\ call.op = "CanvasClient"
        /\ \/ Missing(call.api_token, env.CANVAS_TOKEN)
           \/ Missing(call.api_url, env.CANVAS_HOST)) =>
          /\ outcome = Raised(Exc("ValueError"))
          /\ client = NoClient
    /\ client # NoClient => (client.api_token # <<>> /\ client.api_url # <<>>)

C8_Witness ==
    /\ call.op = "CanvasClient"
    /\ call.api_token = PyStr(S_tok)
    /\ Missing(call.api_url, env.CANVAS_HOST)
    /\ outcome = Raised(Exc("ValueError"))
    /\ client = NoClient

ClientWellFormed ==
    client # NoClient =>
        /\ client.api_token # <<>>
        /\ client.api_url # <<>>
        /\ EndsWith(client.api_url, "/")
        /\ client.headers = [Authorization |-> S_bearer \o client.api_token]

\* C9: once constructed, the client's api_token, api_url and headers never
\* change, whatever calls follow, and in every state the token and the host
\* are non-empty and the host ends in '/'.
C9_ClientImmutable ==
    /\ []ClientWellFormed
    /\ [][client # NoClient => client' = client]_vars

C9_Witness ==
    /\ client # NoClient
    /\ client.api_url = S_hostSlash
    /\ call.op = "paginate"
    /\ pgPc = "done"
    /\ yielded # <<>>

(***************************************************************************)
(* Id coercion                                                             *)
(***************************************************************************)
\* the canonical string of an id argument: of its `id` field when it is an
\* object carrying one, of itself otherwise
Canonical(item) ==
    IF item.t = "dict" /\ "id" \in DOMAIN item.d THEN Str(item.d.id) ELSE Str(item)

\* the endpoint path of a facade's get for canonical ids a and b
ExpectedGetEndpoint(facade, a, b) ==
    CASE facade = "Courses"     -> S_courses \o S_slash \o a
      [] facade = "Users"       -> S_users \o S_slash \o a
      [] facade = "Files"       -> S_files \o S_slash \o a
      [] facade = "Assignments" -> S_courses \o S_slash \o a \o S_slash
                                     \o S_assignments \o S_slash \o b
      [] facade = "Modules"     -> S_courses \o S_slash \o a \o S_slash
                                     \o S_modules \o S_slash \o b

\* C10: in every facade an id given as an object carrying `id` is coerced to
\* the string of that id, and a raw id to its own string: a call with
\* {"id": 42} requests the same endpoint path as a call with 42.
C10_IdCoercion ==
    call.op = "facade_get" =>
        call.endpoint = ExpectedGetEndpoint(call.facade, Canonical(call.item1),
                                            Canonical(call.item2))

(***************************************************************************)
(* File upload                                                             *)
(***************************************************************************)
\* the init POST of an upload was answered 2xx with a JSON object
InitAnswered ==
    /\ call.op = "upload"
    /\ received # <<>>
    /\ received[1].delivered
    /\ IsSuccess(received[1].status_code)
    /\ IsObject(received[1].content)

\* the upload URL the init response names (None when it names none)
InitUrl == DictGet(received[1].content.json, "upload_url", None)

ToApiHost(req) ==
    /\ client # NoClient
    /\ Len(req.url) >= Len(client.api_url)
    /\ SubSeq(req.url, 1, Len(client.api_url)) = client.api_url

\* C12: the bearer Authorization header is attached to every request sent
\* to the API host (the REST calls under api/v1/ and the GraphQL POST) and
\* to no request sent to a file-upload URL.
C12_BearerNotToUploadHost ==
    \A i \in 1..Len(sent) :
        IF ToApiHost(sent[i])
        THEN sent[i].authorization = S_bearer \o client.api_token
        ELSE /\ call.op = "upload"
             /\ i = 2
             /\ sent[i].url = InitUrl.s
             /\ sent[i].authorization = NoAuthorization

C12_Witness ==
    /\ call.op = "upload"
    /\ Len(sent) = 2
    /\ sent[1].authorization = S_bearer \o client.api_token
    /\ sent[2].url = S_uploadUrl
    /\ sent[2].authorization = NoAuthorization

(***************************************************************************)
(* Date validation                                                         *)
(***************************************************************************)
\* n in decimal, padded with zeros to w digits
RECURSIVE Padded(_, _)
Padded(n, w) == IF w = 0 THEN <<>> ELSE Padded(n \div 10, w - 1) \o <<Digit(n % 10)>>

\* the text YYYY-MM-DD of a date
DateText(y, m, d) == Padded(y, 4) \o <<"-">> \o Padded(m, 2) \o <<"-">> \o Padded(d, 2)

\* the years the date strings of the model lie in (year 0 is no year)
InputYears == {1} \cup 2020..2025

\* s is the text YYYY-MM-DD of a day of the calendar
IsCalendarDate(s) ==
    \E y \in InputYears, m \in 1..12, d \in 1..31 :
        d <= DaysInMonth(y, m) /\ s = DateText(y, m, d)

\* C15: _validate_iso_date accepts a string if and only if it is exactly the
\* 10 characters YYYY-MM-DD of a real calendar date, and then returns that
\* year, month and day; every other string raises the validation error
\* (ValueError).
C15_ValidateIsoDate ==
    call.op = "_validate_iso_date" =>
        IF IsCalendarDate(call.date_str)
        THEN /\ outcome.kind = "return"
             /\ call.date_str = DateText(outcome.value.year, outcome.value.month,
                                         outcome.value.day)
        ELSE /\ outcome.kind = "raise"
             /\ outcome.exc.type = "ValueError"

C15_Witness ==
    /\ call.op = "_validate_iso_date"
    /\ call.date_str = D_0331
    /\ outcome = Returned(DateTime(2024, 3, 31, 0, 0, 0, FALSE))

(***************************************************************************)
(* Assignments.list                                                        *)
(***************************************************************************)
AssignmentsListed ==
    /\ call.op = "list"
    /\ call.facade = "Assignments"
    /\ outcome.kind = "return"

\* C19: Assignments.list(course_id, include=...) runs the paginator on the
\* endpoint courses/{course_id}/assignments and returns exactly the sequence
\* of items the paginator produced, as a flat list.
C19_FlatList ==
    AssignmentsListed =>
        /\ call.endpoint = S_courses \o S_slash \o Str(call.course_id) \o S_slash
                             \o S_assignments
        /\ outcome.value = PyList(yielded)

\* the items of a parsed response: of the array, or the single object
ItemsOf(v) == IF v.t = "list" THEN v.items ELSE <<v>>

SingleTools ==
    {"get_course_info", "list_active_courses", "get_next_assignment",
     "get_course_assignments"}

\* C13: the single-object MCP tools never propagate an exception: whatever
\* exception a client call raises, the tool returns {"error": <text of the
\* exception>}.
C13_SingleToolsNeverRaise ==
    (tool.name \in SingleTools /\ tool.pc = "done") =>
        /\ tool.result.kind = "return"
        /\ outcome.kind = "raise" =>
              tool.result.value = PyDict([error |-> PyStr(ExcText(outcome.exc))])

C13_Witness ==
    /\ tool.name = "get_next_assignment"
    /\ tool.pc = "done"
    /\ tool.calls = 2
    /\ outcome.kind = "raise"
    /\ outcome.exc.type = "CanvasAPIError"
    /\ tool.result = Returned(ErrorObject(outcome.exc))

\* every request of the tool's client call was answered 2xx with an array
AllAnswersAreArrays ==
    \A i \in 1..Len(received) :
        /\ received[i].delivered
        /\ IsSuccess(received[i].status_code)
        /\ received[i].content.json # NotJson
        /\ received[i].content.json.t = "list"

\* C18: list_active_courses(page, per_page), run against the real client
\* with a server that answers the courses request successfully, returns the
\* courses the server sent and not an error object: the page and per_page
\* arguments it forwards are accepted by Courses.list, paginate and the
\* transport.
C18_ListActiveCourses ==
    (tool.name = "list_active_courses" /\ tool.pc = "done" /\ AllAnswersAreArrays) =>
        /\ Len(sent) = 1
        /\ Len(received) = 1
        /\ tool.result = Returned(received[1].content.json)

(***************************************************************************)
(* The MCP tools that return a list                                        *)
(***************************************************************************)
ListTools == {"get_assignments_due_this_week", "get_assignments_by_date_range"}

ListToolDone == tool.name \in ListTools /\ tool.pc = "done"

\* ISO dates of equal length order as their texts do
StartAfterEndDate ==
    SeqLess([i \in 1..10 |-> Rank(tool.args.end_date[i])],
            [i \in 1..10 |-> Rank(tool.args.start_date[i])])

\* the date arguments of the date-range tool fail its validation: one of
\* them is not a calendar date YYYY-MM-DD, or the end is before the start
InvalidDateInput ==
    /\ tool.name = "get_assignments_by_date_range"
    /\ \/ ~IsCalendarDate(tool.args.start_date)
       \/ ~IsCalendarDate(tool.args.end_date)
       \/ StartAfterEndDate

\* C14: in the list-returning MCP tools the only exceptions that reach the
\* caller are validation failures of the tool's own date inputs; every other
\* exception, whatever its type, is returned as [{"error": <text>}]; in
\* particular get_assignments_due_this_week never raises.
C14_ListToolsOnlyValidationErrors ==
    ListToolDone =>
        /\ tool.result.kind = "raise" => (InvalidDateInput /\ tool.calls = 0)
        /\ (tool.calls > 0 /\ outcome.kind = "raise") =>
              tool.result = Returned(PyList(<<ErrorObject(outcome.exc)>>))

WellFormedDates ==
    /\ tool.name = "get_assignments_by_date_range"
    /\ tool.pc = "done"
    /\ IsCalendarDate(tool.args.start_date)
    /\ IsCalendarDate(tool.args.end_date)

\* C16: get_assignments_by_date_range with two well-formed dates raises a
\* validation error whose message names both dates when the start date is
\* after the end date; when the start date is before or equal to the end
\* date it does not raise and returns a list (possibly empty).
C16_DateOrder ==
    WellFormedDates =>
        IF StartAfterEndDate
        THEN /\ tool.result.kind = "raise"
             /\ tool.result.exc.type = "ValueError"
             /\ IsSubstring(tool.args.start_date, tool.result.exc.message.s)
             /\ IsSubstring(tool.args.end_date, tool.result.exc.message.s)
        ELSE /\ tool.result.kind = "return"
             /\ tool.result.value.t = "list"

\* every request of the tool was answered 2xx with JSON
NoServerFailure ==
    /\ outcome.kind = "return"
    /\ \A i \in 1..Len(received) :
          /\ received[i].delivered
          /\ IsSuccess(received[i].status_code)
          /\ received[i].content.json # NotJson

IsErrorEntry(v) == v.t = "dict" /\ "error" \in DOMAIN v.d

\* C17: for valid dates start <= end and a client whose server calls all
\* succeed, get_assignments_by_date_range returns the assignments of the
\* selected courses whose due date lies within [start, end], each tagged
\* with its course_name; it returns an error entry only when a call to the
\* server fails.
C17_DateRangeResults ==
    (WellFormedDates /\ ~StartAfterEndDate /\ NoServerFailure) =>
        /\ tool.result.kind = "return"
        /\ tool.result.value.t = "list"
        /\ \A i \in 1..Len(tool.result.value.items) :
              LET a == tool.result.value.items[i]
              IN  /\ ~IsErrorEntry(a)
                  /\ "course_name" \in DOMAIN a.d
                  /\ "due_at" \in DOMAIN a.d
        /\ tool.calls = 1 + Len(tool.courses)

(***************************************************************************)
(* The create operations                                                   *)
(***************************************************************************)
\* the fields a create operation requires, with the values of the call's
\* arguments (an id argument by its canonical string)
RequiredOf(op, args) ==
    CASE op = "Courses.create" ->
            \* course_code is optional: a field of the body when one is given
            [k \in {"course[name]"}
                  \cup (IF args.course_code \notin {None, PyStr(<<>>)}
                        THEN {"course[course_code]"} ELSE {}) |->
               IF k = "course[name]" THEN args.name ELSE args.course_code]
      [] op = "Assignments.create" ->
            [k \in {"assignment[name]", "assignment[points_possible]"} |->
               IF k = "assignment[name]" THEN args.name ELSE args.points_possible]
      [] op = "Modules.create" -> [k \in {"module[name]"} |-> args.name]
      [] op = "Modules.create_item" ->
            [k \in {"module_item[title]", "module_item[type]", "module_item[content_id]"} |->
               IF k = "module_item[title]" THEN args.title
               ELSE IF k = "module_item[type]" THEN args.type
               ELSE PyStr(Canonical(args.content_id))]
      [] op = "Files.create_folder" ->
            [k \in {"name", "parent_folder_id"} |->
               IF k = "name" THEN args.name ELSE PyStr(Canonical(args.parent_folder_id))]

\* the extra fields the caller supplied
ExtraOf(kwargs) == IF "json_data" \in DOMAIN kwargs THEN kwargs.json_data.d ELSE <<>>

\* C21: a create operation sends one POST whose JSON body holds every
\* required field with the value of the call's argument, and every extra
\* field of the caller's json_data that is not a required field with the
\* caller's value; where the caller's json_data has a required field's key,
\* the argument's value is the one sent.
C21_CreateBody ==
    call.op = "create" =>
       LET required == RequiredOf(call.create, call.args)
           extra    == ExtraOf(call.kwargs)
       IN  /\ DOMAIN call.kwargs \subseteq RequestKeywords => Len(sent) = 1
           /\ sent # <<>> =>
                /\ sent[1].method = "POST"
                /\ sent[1].json.t = "dict"
                /\ \A k \in DOMAIN required :
                      /\ k \in DOMAIN sent[1].json.d
                      /\ sent[1].json.d[k] = required[k]
                /\ \A k \in DOMAIN extra \ DOMAIN required :
                      /\ k \in DOMAIN sent[1].json.d
                      /\ sent[1].json.d[k] = extra[k]

\* a create whose caller supplied an extra field and a value under the key of
\* a required field has been sent and answered
C21_Witness ==
    /\ call.op = "create"
    /\ call.create = "Modules.create_item"
    /\ outcome.kind = "return"
    /\ Len(sent) = 1
    /\ "x" \in DOMAIN ExtraOf(call.kwargs)
    /\ "module_item[title]" \in DOMAIN ExtraOf(call.kwargs)
    /\ ExtraOf(call.kwargs)["module_item[title]"] # call.args.title
    /\ sent[1].json.d["module_item[title]"] = call.args.title

(***************************************************************************)
(* get_assignments_due_this_week                                           *)
(***************************************************************************)
\* get_assignments_due_this_week(course_id) for one course has returned a
\* list of assignments: it read the clock once, and tool.now is that reading
DueThisWeekReturned ==
    /\ tool.name = "get_assignments_due_this_week"
    /\ tool.pc = "done"
    /\ tool.args.course_id # None
    /\ tool.now # None
    /\ tool.result.kind = "return"
    /\ \A i \in 1..Len(tool.result.value.items) : ~IsErrorEntry(tool.result.value.items[i])

\* the assignment has a due date within [now, now + 7 days]
DueInWeekFrom(now, assignment) ==
    /\ "due_at" \in DOMAIN assignment.d
    /\ assignment.d.due_at.t = "str"
    /\ LET due_at == FromIsoFormat(ReplaceZ(assignment.d.due_at.s)).value
       IN  /\ ~SeqLess(Fields(due_at), Fields(now))
           /\ ~SeqLess(Fields(AddDays(now, 7)), Fields(due_at))

\* C22: every assignment get_assignments_due_this_week returns has a due_at,
\* and that due_at is not earlier than the time of the call and not later
\* than 7 days after it.
C22_DueInNextSevenDays ==
    DueThisWeekReturned =>
       \A i \in 1..Len(tool.result.value.items) :
          DueInWeekFrom(tool.now, tool.result.value.items[i])

(***************************************************************************)
(* get_next_assignment                                                     *)
(***************************************************************************)
\* get_next_assignment has returned after both of its client calls returned
NextAssignmentListed ==
    /\ tool.name = "get_next_assignment"
    /\ tool.pc = "done"
    /\ tool.calls = 2
    /\ outcome.kind = "return"

\* what assignments.list returned to the tool: the listed assignments
Listing == outcome.value.d.assignments.items

\* the assignment with course_name set to the course's name
WithCourseName(assignment, course) ==
    PyDict([k \in DOMAIN assignment.d \cup {"course_name"} |->
              IF k # "course_name" THEN assignment.d[k]
              ELSE IF "name" \in DOMAIN course.d THEN course.d.name
              ELSE PyStr(<<"Unknown Course">>)])

\* C23: get_next_assignment fetches the course first and then lists the
\* assignments once, with page=1, per_page=1, order_by='due_at' and
\* bucket='upcoming'; for an empty listing it returns {"message": "No
\* upcoming assignments"}, and otherwise the first listed assignment with
\* course_name set to the course's name, 'Unknown Course' if it has none.
C23_NextAssignment ==
    /\ tool.name = "get_next_assignment" /\ call.op = "facade_get" =>
          /\ tool.calls = 1
          /\ call.facade = "Courses"
    /\ tool.name = "get_next_assignment" /\ call.op = "list" =>
          /\ tool.calls = 2
          /\ call.facade = "Assignments"
          /\ call.course_id = tool.args.course_id
          /\ call.args.page = PyInt(1)
          /\ call.args.per_page = PyInt(1)
          /\ call.args.order_by = PyStr(S_due_at)
          /\ call.args.bucket = PyStr(S_upcoming)
          /\ Len(sent) <= 1
          /\ \A i \in 1..Len(sent) :
                /\ sent[i].params.d.page = PyInt(1)
                /\ sent[i].params.d.per_page = PyInt(1)
                /\ sent[i].params.d.order_by = PyStr(S_due_at)
                /\ sent[i].params.d.bucket = PyStr(S_upcoming)
    /\ NextAssignmentListed =>
          IF Listing = <<>>
          THEN tool.result =
                  Returned(PyDict([message |-> PyStr(<<"No upcoming assignments">>)]))
          ELSE tool.course.t = "dict" /\ Listing[1].t = "dict" =>
                  tool.result = Returned(WithCourseName(Listing[1], tool.course))

\* the tool returned the first of two listed assignments, for a course
\* without a name
C23_Witness ==
    /\ NextAssignmentListed
    /\ Len(Listing) = 2
    /\ tool.course.t = "dict"
    /\ "name" \notin DOMAIN tool.course.d
    /\ tool.result.kind = "return"
    /\ tool.result.value.d.course_name = PyStr(<<"Unknown Course">>)
    /\ tool.result.value.d.id = Listing[1].d.id

(***************************************************************************)
(* Errors of the library                                                   *)
(***************************************************************************)
\* the i-th page fetch of the current call failed
FetchFailed(i) == RequestReceive(received[i]).kind = "raise"

LibraryOps == {"request", "query", "paginate", "facade_get", "list", "create", "upload"}

\* the network call failed: no answer, or an answer with an error status
Failure(resp) == ~resp.delivered \/ resp.status_code >= 400

\* C25: an operation of the core library never returns when a network call
\* it made failed: it ends with a raise; and a facade operation ends with
\* exactly the exception its client call raised.  (Only the MCP tools turn an
\* exception into a returned value.)
C25_LibraryAlwaysRaises ==
    /\ call.op \in LibraryOps =>
          \A i \in 1..Len(received) : Failure(received[i]) => outcome.kind = "raise"
    /\ call.op \in {"facade_get", "list", "create"} =>
          \A i \in 1..Len(received) :
             RequestReceive(received[i]).kind = "raise" =>
                outcome = RequestReceive(received[i])
    /\ call.op = "upload" /\ received # <<>> /\ RequestReceive(received[1]).kind = "raise" =>
          outcome = RequestReceive(received[1])
    /\ call.op = "create" /\ ~(DOMAIN call.kwargs \subseteq RequestKeywords) =>
          outcome = Raised(Exc("TypeError"))

\* a create operation whose POST the server refused has raised the client's
\* CanvasAPIError
C25_Witness ==
    /\ call.op = "create"
    /\ received # <<>>
    /\ received[1].delivered
    /\ received[1].status_code = 404
    /\ outcome.kind = "raise"
    /\ outcome.exc.type = "CanvasAPIError"
    /\ outcome.exc.status_code = 404

\* C26: an invocation of _request (through get, post, put or delete) and an
\* invocation of query issue exactly one network call, whether it succeeds
\* or fails: one request is sent, and the call ends on its one answer.
C26_OneNetworkCall ==
    /\ call.op = "request" /\ DOMAIN call.kwargs \subseteq RequestKeywords =>
          /\ Len(sent) = 1
          /\ outcome = Pending => received = <<>>
          /\ outcome # Pending => Len(received) = 1 /\ outcome = RequestReceive(received[1])
    /\ call.op = "query" =>
          /\ Len(sent) = 1
          /\ outcome = Pending => received = <<>>
          /\ outcome # Pending => Len(received) = 1 /\ outcome = QueryReceive(received[1])

\* a request that failed has ended with a raise after its one network call
C26_Witness ==
    /\ call.op = "request"
    /\ Len(sent) = 1
    /\ Len(received) = 1
    /\ Failure(received[1])
    /\ outcome.kind = "raise"

(***************************************************************************)
(* Termination and laziness of paginate                                    *)
(***************************************************************************)
PaginateRunning == pgPc \notin {"idle", "done", "raised"}
PaginateEnded == pgPc \in {"done", "raised"}

\* no page is requested twice in one pagination
NoPageTwice ==
    call.op \in {"paginate", "list"} =>
       \A i, j \in 1..Len(sent) : i # j => sent[i].url # sent[j].url

PageRequested ==
    /\ call'.op = "paginate"
    /\ Len(sent') = Len(sent) + 1

\* the page requests of paginate that are not answered yet
InFlight == Len(sent) - Len(received)

RaisedValidationError ==
    /\ tool.name = "get_assignments_by_date_range"
    /\ tool.pc = "done"
    /\ tool.result.kind = "raise"
    /\ tool.result.exc.type = "ValueError"

\* C29: get_assignments_by_date_range validates both dates and their order
\* before it touches the client: with a date that is not a calendar date in
\* the form YYYY-MM-DD, or a start after the end, it raises without having
\* made any client call, and whenever it has raised a validation error no
\* client call has been made.
C29_ValidationBeforeClient ==
    /\ InvalidDateInput =>
          /\ RaisedValidationError
          /\ tool.calls = 0
    /\ RaisedValidationError =>
          /\ tool.calls = 0
          /\ call = NoCall
          /\ sent = <<>>

\* the tool was called with two well-formed dates, the start after the end,
\* and has raised
C29_Witness ==
    /\ RaisedValidationError
    /\ WellFormedDates
    /\ StartAfterEndDate
    /\ tool.calls = 0

(***************************************************************************)
(* The caller's dictionaries                                               *)
(***************************************************************************)
\* the dictionary the caller passed to the current call, as it was passed
AsPassed ==
    IF call.op = "create" THEN call.kwargs.json_data ELSE call.kwargs.params

\* C30: paginate and the facade operations leave the caller's `params` and
\* `json_data` dictionaries as they were passed: same keys, same values, at
\* every moment of the call and after it.
C30_CallerDictsUnchanged ==
    call.op \in {"paginate", "list", "create", "upload"} /\ passed # NotPassed =>
       passed = AsPassed

=============================================================================
